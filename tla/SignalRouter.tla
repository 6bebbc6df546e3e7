---------------------------- MODULE SignalRouter ----------------------------
(***************************************************************************)
(* py/python/c12n/router.py: rules over the answer of one evaluation       *)
(* decide between a strong and a weak model.                               *)
(*                                                                         *)
(* The results come in the order in which the signals finished, and those  *)
(* of signals that failed are missing.  A result has the type of its       *)
(* signal and the conditions it meets; a rule names one type and the       *)
(* conditions it needs.  A condition that raises is one no result meets.   *)
(***************************************************************************)
EXTENDS Bindings

\* SignalRule: a win rate lies between 0 and 1, a priority is an int.
ASSUME ResultsAssumption ==
    \A family \in DOMAIN Inputs : \A i \in Inputs[family] :
        i.signal = "route" =>
            /\ IsASequence(i.results) /\ IsASequence(i.rules)
            /\ {i.default, i.fallback} \subseteq 0..Unit
            /\ \A rule \in ToSet(i.rules) : rule.rate \in 0..Unit /\ rule.priority \in Int

\* from_config: a rule without a condition needs a confidence above zero.
FromConfig(needs) == IF needs = {} THEN {"positive"} ELSE needs

\* The last result of each type, of those whose signal has one.
Kept(results) ==
    {result \in ToSet(results) :
        \E k \in DOMAIN results :
            /\ results[k] = result
            /\ \A j \in DOMAIN results : j > k => results[j].type # result.type}

Fires(rule, result) == rule.type = result.type /\ FromConfig(rule.needs) \subseteq result.meets

\* The first of some rules, by priority: sorted() leaves those of one priority in their order.
FirstOf(firing, rules) ==
    CHOOSE i \in firing : \A j \in firing :
        \/ rules[i].priority > rules[j].priority
        \/ rules[i].priority = rules[j].priority /\ i <= j

\* The first rule, by priority, whose signal answered and meets it.
WinRate(rules, results, default) ==
    LET kept == Kept(results)
        firing == {i \in DOMAIN rules : \E result \in kept : Fires(rules[i], result)}
    IN  IF firing = {} THEN default ELSE rules[FirstOf(firing, rules)].rate

\* calculate_strong_win_rate and route; "raises": evaluate does, or its answer is no JSON.
Route ==
    /\ Asked("route")
    /\ LET rate == IF input.raises THEN input.fallback
                   ELSE WinRate(input.rules, input.results, input.default)
       IN  Answer(Result(rate, <<IF rate >= input.threshold THEN "strong" ELSE "weak">>))

RouterNext == BindingsNext \/ Route

RouterSpec == Init /\ [][RouterNext]_vars
=============================================================================
