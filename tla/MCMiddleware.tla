---- MODULE MCMiddleware ----
(* Bodies of up to three contents: a text, one that is no JSON, one too deep, one not UTF-8. *)
EXTENDS Middleware, TLC

CONSTANTS text, garbage, deep, bad

MCTexts == {text, garbage, deep}
MCUndecodable == {bad}
MCRaises == text :> "nothing" @@ garbage :> "JSONDecodeError" @@ deep :> "other"
============================
