----------------------------- MODULE Middleware -----------------------------
(***************************************************************************)
(* C12NMiddleware of py/python/c12n/middleware.py: one HTTP request between *)
(* the ASGI server that delivers it, the middleware that reads and         *)
(* classifies its body, and the application the body is replayed to.       *)
(*                                                                         *)
(* The client sends the body in messages and may leave between any two.    *)
(* A message has a sequence of contents, empty or of one element.  From    *)
(* the last message to the call of the application nothing is awaited:     *)
(* Classify is one step.                                                   *)
(***************************************************************************)
EXTENDS Naturals, Sequences

CONSTANTS
    Texts,         \* contents that decode
    Undecodable,   \* contents that are not UTF-8
    Raises,        \* the exception of json.loads or the extractor that a text is answered with
    MaxMessages,   \* bound: messages of a body
    MaxReceives    \* bound: messages the application asks for

ASSUME BoundsAssumption == MaxMessages \in Nat \ {0} /\ MaxReceives \in Nat \ {0}

\* The exceptions that __call__ names, and "other": a RecursionError of a body nested too
\* deep, a ValueError of a number too long, whatever an extractor of the caller's raises.
Caught == {"JSONDecodeError", "KeyError", "TypeError", "IndexError"}
ASSUME RaisesAssumption == Raises \in [Texts -> Caught \cup {"nothing", "other"}]

Contents == {<<>>} \cup {<<c>> : c \in Texts \cup Undecodable}

VARIABLES
    sent,       \* what the client has sent
    client,     \* "sending", "finished" with the body, or "gone" before
    inbox,      \* messages the server holds for receive()
    stage,         \* where the middleware is
    body,       \* what _read_body has collected
    signals,    \* what became of scope[result_key]
    got         \* messages the application has received
middlewareVars == <<sent, client, inbox, stage, body, signals, got>>

Request(content, more) == [type |-> "http.request", body |-> content, more |-> more]
Disconnect == [type |-> "http.disconnect", body |-> <<>>, more |-> FALSE]
Messages == {Request(c, m) : c \in Contents, m \in BOOLEAN} \cup {Disconnect}

MiddlewareInit ==
    /\ sent = <<>> /\ client = "sending" /\ inbox = <<>>
    /\ stage = "reading" /\ body = <<>> /\ signals = "unset" /\ got = <<>>

Send(content, more) ==
    /\ client = "sending"
    /\ Len(inbox) < MaxMessages /\ Len(sent) + (IF more THEN 1 ELSE 0) < MaxMessages
    /\ sent' = sent \o content
    /\ inbox' = Append(inbox, Request(content, more))
    /\ client' = IF more THEN "sending" ELSE "finished"
    /\ UNCHANGED <<stage, body, signals, got>>

\* Every later receive() is told, once the messages before are delivered.
Leave ==
    /\ client = "sending"
    /\ client' = "gone"
    /\ UNCHANGED <<sent, inbox, stage, body, signals, got>>

\* receive(): the next message, or that the client is gone (a finished one hangs up).
Receive(msg) ==
    \/ inbox # <<>> /\ msg = Head(inbox) /\ inbox' = Tail(inbox)
    \/ inbox = <<>> /\ client # "sending" /\ msg = Disconnect /\ UNCHANGED inbox

-----------------------------------------------------------------------------

\* Mutant: only a request message ends the body.
EndsWithRequest(msg) == msg.type = "http.request" /\ ~msg.more

\* msg.get("more_body", False): http.disconnect ends the body too.
Ends(msg) == ~msg.more

Read ==
    /\ stage = "reading"
    /\ \E msg \in Messages :
        /\ Receive(msg)
        /\ body' = body \o msg.body
        /\ stage' = IF Ends(msg) THEN "classifying" ELSE "reading"
    /\ UNCHANGED <<sent, client, signals, got>>

\* What a body can be answered with: json.loads decodes all of it first, and {} stands
\* for one without contents.
Raised(content) ==
    IF content = <<>> THEN {"nothing"}
    ELSE IF \E i \in DOMAIN content : content[i] \in Undecodable THEN {"UnicodeDecodeError"}
    ELSE {Raises[content[i]] : i \in DOMAIN content}

\* A body without text, an exception that is named, an evaluate that raises and an answer
\* that is not JSON leave the scope alone; any other exception fails the request.
Classify ==
    /\ stage = "classifying"
    /\ \E exception \in Raised(body) :
        \/ /\ exception \in Caught \cup {"nothing"}
           /\ stage' = "app"
           /\ signals' \in IF exception = "nothing" /\ body # <<>> THEN {"set", "unset"} ELSE {"unset"}
        \/ /\ exception \notin Caught \cup {"nothing"}
           /\ stage' = "raised"
           /\ UNCHANGED signals
    /\ UNCHANGED <<sent, client, inbox, body, got>>

\* Mutant: every call of receive() replays the body.
AppReceivesAgain ==
    /\ stage = "app" /\ Len(got) < MaxReceives
    /\ got' = Append(got, Request(body, FALSE))
    /\ UNCHANGED <<sent, client, inbox, stage, body, signals>>

\* receive_wrapper: the first call has the body, later ones what the server has.
AppReceives ==
    /\ stage = "app" /\ Len(got) < MaxReceives
    /\ IF got = <<>>
       THEN got' = <<Request(body, FALSE)>> /\ UNCHANGED inbox
       ELSE \E msg \in Messages : Receive(msg) /\ got' = Append(got, msg)
    /\ UNCHANGED <<sent, client, stage, body, signals>>

MiddlewareNext ==
    \/ \E content \in Contents, more \in BOOLEAN : Send(content, more)
    \/ Leave
    \/ Read \/ Classify \/ AppReceives

\* The event loop runs the middleware while it can; a client finishes or leaves.
MiddlewareSpec ==
    /\ MiddlewareInit /\ [][MiddlewareNext]_middlewareVars
    /\ WF_middlewareVars(Read \/ Classify)
    /\ WF_middlewareVars(Leave \/ \E content \in Contents : Send(content, FALSE))

-----------------------------------------------------------------------------
(* Properties *)

\* Of a body that arrived whole, the application gets all, in order, as one message
\* and one time, however the client cut it up; __call__ and receive_wrapper.
BodyReplayed ==
    client = "finished" /\ got # <<>> =>
        /\ got[1] = Request(sent, FALSE)
        /\ \A i \in 2..Len(got) : got[i] = Disconnect

\* The middleware never waits for ever for more of the body (_read_body), and a body
\* reaches the application whatever its JSON lacks and whatever the pipeline does with it.
\* Only bytes that are not UTF-8 and what else line 59 does not name can fail the request.
RequestsGoOn ==
    /\ <>(stage # "reading")
    /\ stage = "classifying" /\ Raised(body) \cap {"UnicodeDecodeError", "other"} = {} ~> stage = "app"
=============================================================================
