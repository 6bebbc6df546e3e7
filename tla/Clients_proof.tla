--------------------------- MODULE Clients_proof ---------------------------
(***************************************************************************)
(* Proofs about two clients of the engine: NativeHandle, the Go pipeline   *)
(* over the C library, for every set of goroutines, and Middleware, the    *)
(* Python ASGI middleware, for every body.                                 *)
(***************************************************************************)
EXTENDS NativeHandle, Middleware, SequenceTheorems, TLAPS

Pcs == {"idle", "locking", "locked", "native", "copying", "freeing", "free", "unlocking"}

\* What a goroutine's place says of its call, its string and the pipeline.
ThreadInv(t) ==
    /\ pc[t] \in {"native", "copying", "freeing"} => call[t] = "evaluate" /\ ~closed
    /\ pc[t] = "free" => call[t] = "close" /\ closed /\ boxed = "live"
    /\ pc[t] = "copying" => result[t] = "live"
    /\ pc[t] \in {"idle", "locking", "locked", "native", "free"} => result[t] # "live"
    /\ pc[t] = "unlocking" => result[t] # "live"
    /\ answer[t] = "json" => copied[t]
    /\ pc[t] = "idle" <=> call[t] = "none"
    /\ pc[t] \in {"locking", "locked", "native", "copying", "free"} => answer[t] = "none"
    /\ pc[t] \in {"freeing", "unlocking"} => answer[t] # "none"

\* The mutex separates the goroutines; under it, freed means closed, and closed but
\* not yet freed means that the holder is about to free.
HandleInv ==
    /\ mu \in Threads \cup {Nobody}
    /\ closed \in BOOLEAN
    /\ boxed \in {"live", "freed"}
    /\ pc \in [Threads -> Pcs]
    /\ call \in [Threads -> {"none", "evaluate", "close"}]
    /\ result \in [Threads -> {"none", "live", "freed"}]
    /\ copied \in [Threads -> BOOLEAN]
    /\ answer \in [Threads -> {"none", "json", "failed", "closed", "done"}]
    /\ \A t \in Threads : mu = t <=> pc[t] \notin {"idle", "locking"}
    /\ boxed = "freed" => closed
    /\ closed /\ boxed = "live" => \E t \in Threads : pc[t] = "free"
    /\ \A t \in Threads : ThreadInv(t)

LEMMA InitHandle == Init => HandleInv
  BY NobodyAssumption DEF Init, HandleInv, ThreadInv, Pcs

LEMMA NextHandle == HandleInv /\ [Next]_vars => HandleInv'
<1> SUFFICES ASSUME HandleInv, [Next]_vars PROVE HandleInv'
  OBVIOUS
<1> USE NobodyAssumption DEF HandleInv, ThreadInv, Pcs
<1>1. ASSUME NEW t \in Threads, Call(t) PROVE HandleInv'
  BY <1>1 DEF Call, Goto
<1>2. ASSUME NEW t \in Threads, Lock(t) PROVE HandleInv'
  BY <1>2 DEF Lock, Goto
<1>3. ASSUME NEW t \in Threads, Refuse(t) PROVE HandleInv'
  BY <1>3 DEF Refuse, Goto
<1>4. ASSUME NEW t \in Threads, EnterNative(t) PROVE HandleInv'
  BY <1>4 DEF EnterNative, Goto
<1>5. ASSUME NEW t \in Threads, LeaveNative(t) PROVE HandleInv'
  BY <1>5 DEF LeaveNative, Goto
<1>6. ASSUME NEW t \in Threads, Copy(t) PROVE HandleInv'
  <2>1. /\ pc[t] = "copying" /\ pc'[t] = "freeing" /\ answer'[t] = "json"
        /\ \A q \in Threads \ {t} : /\ pc'[q] = pc[q] /\ answer'[q] = answer[q]
                                    /\ copied'[q] = copied[q]
        /\ UNCHANGED <<mu, closed, boxed, call, result>>
    BY <1>6 DEF Copy, Goto
  <2>2. /\ pc' \in [Threads -> Pcs] /\ copied' \in [Threads -> BOOLEAN]
        /\ answer' \in [Threads -> {"none", "json", "failed", "closed", "done"}]
        /\ copied'[t] = (result[t] = "live")
    BY <1>6 DEF Copy, Goto
  <2>3. ThreadInv(t)'
    BY <2>1, <2>2
  <2>4. \A q \in Threads \ {t} : ThreadInv(q)'
    BY <2>1
  <2>5. QED
    BY <2>1, <2>2, <2>3, <2>4
<1>7. ASSUME NEW t \in Threads, FreeResult(t) PROVE HandleInv'
  BY <1>7 DEF FreeResult, Goto
<1>8. ASSUME NEW t \in Threads, CloseAgain(t) PROVE HandleInv'
  BY <1>8 DEF CloseAgain, Goto
<1>9. ASSUME NEW t \in Threads, SetClosed(t) PROVE HandleInv'
  BY <1>9 DEF SetClosed, Goto
<1>10. ASSUME NEW t \in Threads, FreeBox(t) PROVE HandleInv'
  <2>1. closed /\ pc[t] = "free" /\ mu = t
    BY <1>10 DEF FreeBox, Goto
  <2>2. \A q \in Threads \ {t} : pc[q] \in {"idle", "locking"} /\ pc'[q] = pc[q]
    BY <1>10, <2>1 DEF FreeBox, Goto
  <2>3. pc' \in [Threads -> Pcs] /\ pc'[t] = "unlocking"
    BY <1>10 DEF FreeBox, Goto
  <2>4. ThreadInv(t)'
    <3>1. /\ call'[t] = "close" /\ result'[t] = result[t] /\ result[t] # "live"
          /\ copied'[t] = copied[t]
      BY <1>10, <2>1 DEF FreeBox
    <3>2. answer'[t] = "done"
      BY <1>10 DEF FreeBox
    <3>3. QED
      BY <2>3, <3>1, <3>2
  <2>5. ASSUME NEW q \in Threads \ {t} PROVE ThreadInv(q)'
    BY <1>10, <2>2 DEF FreeBox
  <2>6. \A q \in Threads : mu' = q <=> pc'[q] \notin {"idle", "locking"}
    BY <1>10, <2>1, <2>2, <2>3 DEF FreeBox
  <2> HIDE DEF ThreadInv
  <2>7. QED
    BY <1>10, <2>1, <2>3, <2>4, <2>5, <2>6 DEF FreeBox
<1>11. ASSUME NEW t \in Threads, Unlock(t) PROVE HandleInv'
  BY <1>11 DEF Unlock, Goto
<1>12. CASE UNCHANGED vars
  BY <1>12 DEF vars
<1>13. QED
  BY <1>1, <1>2, <1>3, <1>4, <1>5, <1>6, <1>7, <1>8, <1>9, <1>10, <1>11, <1>12 DEF Next, Step

\* HandleInv is an invariant: the argument all of the following rests on.
THEOREM HandleInvariance == Spec => []HandleInv
<1>1. QED
  BY InitHandle, NextHandle, PTL DEF Spec

\* The state is of its types and the mutex excludes, for any number of goroutines.
THEOREM HandleTypeCorrect == Spec => []TypeOK
<1>1. HandleInv => TypeOK
  BY DEF HandleInv, TypeOK, Pcs
<1>2. QED
  BY <1>1, HandleInvariance, PTL

\* No goroutine is inside the library with a freed pipeline.
THEOREM NeverUsedAfterFree == Spec => []NoUseAfterFree
<1>1. HandleInv => NoUseAfterFree
  BY DEF HandleInv, ThreadInv, NoUseAfterFree
<1>2. QED
  BY <1>1, HandleInvariance, PTL

\* Every string is copied before it is freed and freed before the call returns.
THEOREM EveryStringReturned == Spec => []StringsAreReturned
<1>1. HandleInv => StringsAreReturned
  BY DEF HandleInv, ThreadInv, Pcs, StringsAreReturned
<1>2. QED
  BY <1>1, HandleInvariance, PTL

\* The pipeline is freed once.
THEOREM FreedOnce == Spec => NoDoubleFree
<1>1. HandleInv /\ [Next]_vars => [\A t \in Threads : FreeBox(t) => boxed = "live"]_vars
  BY DEF HandleInv, ThreadInv, FreeBox, Goto
<1>2. QED
  BY <1>1, HandleInvariance, PTL DEF Spec, NoDoubleFree

-----------------------------------------------------------------------------
(* The safety part of the contract. *)

LEMMA ContractInit == Init => Contract!Init
  BY DEF Init, Contract!Init

LEMMA ContractStep == HandleInv /\ [Next]_vars => [Contract!Next]_Contract!vars
<1> SUFFICES ASSUME HandleInv, [Next]_vars PROVE [Contract!Next]_Contract!vars
  OBVIOUS
<1> USE NobodyAssumption DEF HandleInv, ThreadInv, Pcs
<1>1. ASSUME NEW t \in Threads, Call(t) PROVE Contract!Begin(t)
  BY <1>1 DEF Call, Goto, Contract!Begin, Contract!Calls
<1>2. ASSUME NEW t \in Threads, Refuse(t) PROVE Contract!TakeEffect(t)
  <2>1. closed => boxed = "freed"
    BY <1>2 DEF Refuse, Goto
  <2>2. QED
    BY <1>2, <2>1 DEF Refuse, Goto, Contract!TakeEffect
<1>3. ASSUME NEW t \in Threads, LeaveNative(t)
      PROVE  Contract!TakeEffect(t) \/ UNCHANGED Contract!vars
  BY <1>3 DEF LeaveNative, Goto, Contract!TakeEffect, Contract!vars
<1>4. ASSUME NEW t \in Threads, Copy(t) PROVE Contract!TakeEffect(t)
  BY <1>4 DEF Copy, Goto, Contract!TakeEffect
<1>5. ASSUME NEW t \in Threads, CloseAgain(t) PROVE Contract!TakeEffect(t)
  <2>1. boxed = "freed"
    BY <1>5 DEF CloseAgain, Goto
  <2>2. QED
    BY <1>5, <2>1 DEF CloseAgain, Goto, Contract!TakeEffect
<1>6. ASSUME NEW t \in Threads, FreeBox(t) PROVE Contract!TakeEffect(t)
  BY <1>6 DEF FreeBox, Goto, Contract!TakeEffect
<1>7. ASSUME NEW t \in Threads, Unlock(t) PROVE Contract!End(t)
  BY <1>7 DEF Unlock, Goto, Contract!End
<1>8. ASSUME NEW t \in Threads, Lock(t) \/ EnterNative(t) \/ FreeResult(t) \/ SetClosed(t)
      PROVE  UNCHANGED Contract!vars
  BY <1>8 DEF Lock, EnterNative, FreeResult, SetClosed, Goto, Contract!vars
<1>9. CASE UNCHANGED vars
  BY <1>9 DEF vars, Contract!vars
<1>10. QED
  BY <1>1, <1>2, <1>3, <1>4, <1>5, <1>6, <1>7, <1>8, <1>9 DEF Next, Step, Contract!Next

\* The handle implements the safety part of HandleContract, for any number of goroutines.
THEOREM HandleRefinesContract == Spec => Contract!Init /\ [][Contract!Next]_Contract!vars
<1>1. QED
  BY ContractInit, ContractStep, HandleInvariance, PTL DEF Spec

-----------------------------------------------------------------------------
(* The body the middleware replays. *)

\* The contents a body is a sequence of.
Symbols == Texts \cup Undecodable

\* What a message holds of the body.
Held(msg) == msg.body

\* Message i of the inbox holds what was sent from o[i] + 1 to o[i + 1]: together the
\* messages are the rest of the whole after what is read.
Cut(o, whole, read, box) ==
    /\ o \in [1..(Len(box) + 1) -> Nat]
    /\ o[1] = Len(read) /\ o[Len(box) + 1] = Len(whole)
    /\ \A i \in 1..(Len(box) + 1) : o[i] <= Len(whole)
    /\ \A i \in 1..Len(box) :
          /\ o[i] <= o[i + 1]
          /\ Held(box[i]) = SubSeq(whole, o[i] + 1, o[i + 1])

\* The messages in the box are the rest of the whole.
IsCut(whole, read, box) == \E o : Cut(o, whole, read, box)

\* While the body is read, the inbox holds the rest of it, and only its last message ends it.
ReadingInv ==
    /\ body = SubSeq(sent, 1, Len(body))
    /\ IsCut(sent, body, inbox)
    /\ \A i \in 1..Len(inbox) :
          /\ inbox[i].type = "http.request"
          /\ ~inbox[i].more <=> client = "finished" /\ i = Len(inbox)
    /\ client = "finished" => inbox # <<>>

\* What the application can be given: a replayed body is longer than any message.
Received ==
    [type : {"http.request", "http.disconnect"}, body : Seq(Symbols), more : BOOLEAN]

\* Once it is read, a finished body is all that was sent and nothing is left to receive.
MiddlewareInv ==
    /\ sent \in Seq(Symbols)
    /\ body \in Seq(Symbols)
    /\ inbox \in Seq(Messages)
    /\ got \in Seq(Received)
    /\ client \in {"sending", "finished", "gone"}
    /\ stage = "reading" => ReadingInv
    /\ stage # "reading" => client # "sending" /\ (client = "finished" => inbox = <<>> /\ body = sent)
    /\ stage # "app" => got = <<>>
    /\ BodyReplayed

\* A content is a sequence, and a request made of one a message.
LEMMA ContentsAreSequences ==
    /\ \A c \in Contents : c \in Seq(Symbols)
    /\ \A c \in Contents, m \in BOOLEAN : Request(c, m) \in Messages
<1>1. \A c \in Symbols : <<c>> \in Seq(Symbols)
  OBVIOUS
<1>2. <<>> \in Seq(Symbols)
  OBVIOUS
<1>3. \A c \in Contents : c = <<>> \/ \E x \in Symbols : c = <<x>>
  BY DEF Contents, Symbols
<1>4. \A c \in Contents, m \in BOOLEAN : Request(c, m) \in Messages
  BY DEF Messages
<1>5. QED
  BY <1>1, <1>2, <1>3, <1>4

LEMMA MessagesAreReceived == \A msg \in Messages : msg \in Received
<1>1. \A msg \in Messages :
        \/ \E c \in Contents, m \in BOOLEAN : msg = Request(c, m)
        \/ msg = Disconnect
  BY DEF Messages
<1>2. \A c \in Contents, m \in BOOLEAN : Request(c, m) \in Received
  BY ContentsAreSequences DEF Request, Received
<1>3. Disconnect \in Received
  BY DEF Disconnect, Received
<1>4. QED
  BY <1>1, <1>2, <1>3

LEMMA InitMiddleware == MiddlewareInit => MiddlewareInv
<1> SUFFICES ASSUME MiddlewareInit PROVE MiddlewareInv
  OBVIOUS
<1>1. Cut([i \in 1..1 |-> 0], sent, body, inbox)
  BY DEF Cut, MiddlewareInit
<1>2. ReadingInv
  BY <1>1 DEF ReadingInv, IsCut, MiddlewareInit
<1>3. QED
  BY <1>2 DEF MiddlewareInv, MiddlewareInit, BodyReplayed

\* What is sent after a prefix leaves its pieces alone.
LEMMA PieceOfPrefix ==
    ASSUME NEW s \in Seq(Symbols), NEW c \in Seq(Symbols), NEW i \in Nat, NEW j \in Nat, j <= Len(s)
    PROVE  SubSeq(s \o c, i + 1, j) = SubSeq(s, i + 1, j)
<1> DEFINE w == s \o c
           n == Len(s)
<1>1. /\ w \in Seq(Symbols) /\ n \in Nat /\ Len(w) \in Nat /\ n <= Len(w)
      /\ \A k \in 1..n : w[k] = s[k] /\ s[k] \in Symbols
  BY ConcatProperties, ElementOfSeq
<1>2. j <= n
  OBVIOUS
<1> HIDE DEF w, n
<1>3. \A k \in (i + 1)..j : w[k] = s[k] /\ s[k] \in Symbols /\ w[k] \in Symbols
  BY <1>1, <1>2
<1>4. /\ SubSeq(s, i + 1, j) \in Seq(Symbols)
      /\ Len(SubSeq(s, i + 1, j)) = IF i + 1 <= j THEN j - (i + 1) + 1 ELSE 0
      /\ \A k \in 1..(j - (i + 1) + 1) : SubSeq(s, i + 1, j)[k] = s[(i + 1) + k - 1]
  <2>1. i + 1 \in Int /\ j \in Int /\ \A k \in (i + 1)..j : s[k] \in Symbols
    BY <1>3
  <2>2. QED
    BY ONLY <2>1, SubSeqProperties
<1>5. /\ SubSeq(w, i + 1, j) \in Seq(Symbols)
      /\ Len(SubSeq(w, i + 1, j)) = IF i + 1 <= j THEN j - (i + 1) + 1 ELSE 0
      /\ \A k \in 1..(j - (i + 1) + 1) : SubSeq(w, i + 1, j)[k] = w[(i + 1) + k - 1]
  <2>1. i + 1 \in Int /\ j \in Int
    OBVIOUS
  <2>2. \A k \in (i + 1)..j : w[k] \in Symbols
    BY <1>3
  <2>3. QED
    BY ONLY <2>1, <2>2, SubSeqProperties
<1>6. \A k \in 1..(j - (i + 1) + 1) : SubSeq(w, i + 1, j)[k] = SubSeq(s, i + 1, j)[k]
  BY <1>3, <1>4, <1>5
<1>7. \A k \in 1..Len(SubSeq(w, i + 1, j)) : SubSeq(w, i + 1, j)[k] = SubSeq(s, i + 1, j)[k]
  BY <1>5, <1>6
<1>8. SubSeq(w, i + 1, j) = SubSeq(s, i + 1, j)
  BY <1>4, <1>5, <1>7, SeqEqual
<1>9. QED
  BY <1>8 DEF w

\* The messages still cut the body after one more is sent.
LEMMA CutExtended ==
    ASSUME NEW s \in Seq(Symbols), NEW c \in Seq(Symbols), NEW b, NEW box \in Seq(Messages),
           NEW msg \in Messages, Held(msg) = c, IsCut(s, b, box)
    PROVE  /\ IsCut(s \o c, b, Append(box, msg))
           /\ b = SubSeq(s, 1, Len(b)) => b = SubSeq(s \o c, 1, Len(b))
<1> DEFINE n == Len(box)
           new == Append(box, msg)
           w == s \o c
<1>1. /\ Len(new) = n + 1 /\ n \in Nat
      /\ new[n + 1] = msg /\ \A i \in 1..n : new[i] = box[i]
  BY AppendProperties
<1>2. /\ w \in Seq(Symbols) /\ Len(w) = Len(s) + Len(c)
      /\ Len(s) \in Nat /\ Len(c) \in Nat /\ Len(w) \in Nat
  BY ConcatProperties
<1>3. \A i, j \in Nat : j <= Len(s) => SubSeq(w, i + 1, j) = SubSeq(s, i + 1, j)
  BY PieceOfPrefix
<1>4. SubSeq(w, Len(s) + 1, Len(w)) = c
  BY <1>2
<1>0. PICK o : Cut(o, s, b, box)
  BY DEF IsCut
<1>5. /\ o \in [1..(n + 1) -> Nat] /\ o[1] = Len(b) /\ o[n + 1] = Len(s)
      /\ \A i \in 1..(n + 1) : o[i] <= Len(s)
      /\ \A i \in 1..n : o[i] <= o[i + 1] /\ Held(box[i]) = SubSeq(s, o[i] + 1, o[i + 1])
  BY <1>0 DEF Cut
<1>6. \A i \in 1..(n + 1) : o[i] \in Nat
  BY <1>5
<1> HIDE DEF n, new, w
<1> DEFINE q == [i \in 1..(n + 2) |-> IF i = n + 2 THEN Len(w) ELSE o[i]]
<1>7. q[n + 2] = Len(w)
  BY <1>1
<1>8. \A i \in 1..(n + 1) : q[i] = o[i]
  BY <1>1
<1>9. q \in [1..(n + 2) -> Nat] /\ \A i \in 1..(n + 2) : q[i] <= Len(w)
  <2>1. \A i \in 1..(n + 2) : i = n + 2 \/ i \in 1..(n + 1)
    BY <1>1
  <2>2. Len(s) <= Len(w)
    BY <1>2
  <2>3. \A i \in 1..(n + 2) : q[i] \in Nat /\ q[i] <= Len(w)
    BY <1>2, <1>5, <1>6, <1>7, <1>8, <2>1, <2>2
  <2>4. QED
    BY <2>3
<1> HIDE DEF q
<1>10. ASSUME NEW i \in 1..(n + 1)
       PROVE  q[i] <= q[i + 1] /\ Held(new[i]) = SubSeq(w, q[i] + 1, q[i + 1])
  <2>1. CASE i \in 1..n
    <3>1. i \in 1..(n + 1) /\ i + 1 \in 1..(n + 1)
      BY <1>1, <2>1
    <3>2. q[i] = o[i] /\ q[i + 1] = o[i + 1] /\ o[i] \in Nat /\ o[i + 1] \in Nat /\ o[i + 1] <= Len(s)
      BY <1>5, <1>6, <1>8, <3>1
    <3>3. SubSeq(w, o[i] + 1, o[i + 1]) = SubSeq(s, o[i] + 1, o[i + 1])
      BY <1>3, <3>2
    <3>4. QED
      BY <1>1, <1>5, <2>1, <3>2, <3>3
  <2>2. CASE i = n + 1
    <3>1. q[i] = Len(s) /\ q[i + 1] = Len(w)
      <4>1. i + 1 = n + 2 /\ n + 1 \in 1..(n + 1)
        BY <1>1, <2>2
      <4>2. QED
        BY <1>5, <1>7, <1>8, <2>2, <4>1
    <3>2. Len(s) <= Len(w)
      BY <1>2
    <3>3. QED
      BY <1>1, <1>4, <2>2, <3>1, <3>2
  <2>3. i \in 1..n \/ i = n + 1
    BY <1>1
  <2>4. QED
    BY <2>1, <2>2, <2>3
<1>11. Len(new) = n + 1 /\ q[1] = Len(b) /\ (n + 1) + 1 = n + 2
  <2>1. 1 \in 1..(n + 1)
    BY <1>1
  <2>2. QED
    BY <1>1, <1>5, <1>8, <2>1
<1>12. Cut(q, w, b, new)
  <2>1. Len(new) + 1 = n + 2
    BY <1>11
  <2>2. QED
    BY <1>7, <1>9, <1>10, <1>11, <2>1 DEF Cut
<1>13. Len(b) \in Nat /\ Len(b) <= Len(s)
  <2>1. 1 \in 1..(n + 1)
    BY <1>1
  <2>2. QED
    BY <1>5, <1>6, <2>1
<1>14. SubSeq(w, 1, Len(b)) = SubSeq(s, 1, Len(b))
  <2>1. 0 \in Nat /\ 0 + 1 = 1
    OBVIOUS
  <2>2. QED
    BY <1>3, <1>13, <2>1
<1>15. QED
  BY <1>12, <1>14 DEF w, new, IsCut

LEMMA SendMiddleware ==
    ASSUME MiddlewareInv, NEW content \in Contents, NEW more \in BOOLEAN,
           Send(content, more)
    PROVE  MiddlewareInv'
<1> DEFINE msg == Request(content, more)
<1>1. /\ stage = "reading" /\ stage' = "reading" /\ got = <<>> /\ got' = <<>> /\ body' = body
      /\ client = "sending" /\ client' = IF more THEN "sending" ELSE "finished"
      /\ sent' = sent \o content /\ inbox' = Append(inbox, msg)
  BY DEF MiddlewareInv, Send
<1>2. /\ sent \in Seq(Symbols) /\ body \in Seq(Symbols) /\ inbox \in Seq(Messages) /\ ReadingInv
  BY <1>1 DEF MiddlewareInv
<1>3. content \in Seq(Symbols) /\ msg \in Messages
  BY ContentsAreSequences
<1>4. msg.body = content /\ msg.type = "http.request" /\ msg.more = more
  BY DEF Request
<1>5. IsCut(sent, body, inbox)
  BY <1>2 DEF ReadingInv
<1>6. body = SubSeq(sent, 1, Len(body))
  BY <1>2 DEF ReadingInv
<1> HIDE DEF msg
<1>7. IsCut(sent', body', inbox') /\ body' = SubSeq(sent', 1, Len(body'))
  <2>1. /\ sent \in Seq(Symbols) /\ content \in Seq(Symbols) /\ inbox \in Seq(Messages)
        /\ msg \in Messages /\ Held(msg) = content
    BY <1>2, <1>3, <1>4 DEF Held
  <2>2. /\ IsCut(sent \o content, body, Append(inbox, msg))
        /\ body = SubSeq(sent, 1, Len(body)) => body = SubSeq(sent \o content, 1, Len(body))
    BY ONLY <2>1, <1>5, CutExtended
  <2>3. QED
    BY <1>1, <1>6, <2>2
<1>8. /\ inbox' \in Seq(Messages) /\ Len(inbox') = Len(inbox) + 1 /\ Len(inbox) \in Nat
      /\ inbox'[Len(inbox) + 1] = msg /\ \A i \in 1..Len(inbox) : inbox'[i] = inbox[i]
  BY <1>1, <1>2, <1>3, AppendProperties
<1>9. ASSUME NEW i \in 1..Len(inbox')
      PROVE  /\ inbox'[i].type = "http.request"
             /\ ~inbox'[i].more <=> client' = "finished" /\ i = Len(inbox')
  <2>1. CASE i = Len(inbox')
    BY <1>1, <1>4, <1>8, <2>1
  <2>2. CASE i # Len(inbox')
    <3>1. i \in 1..Len(inbox) /\ inbox'[i] = inbox[i]
      BY <1>8, <2>2
    <3>2. inbox[i].type = "http.request" /\ inbox[i].more
      BY <1>1, <1>2, <3>1 DEF ReadingInv
    <3>3. QED
      BY <2>2, <3>1, <3>2
  <2>3. QED
    BY <2>1, <2>2
<1>10. inbox' # <<>>
  BY <1>8
<1>11. ReadingInv'
  BY <1>7, <1>9, <1>10 DEF ReadingInv
<1>12. sent' \in Seq(Symbols) /\ body' \in Seq(Symbols) /\ got' \in Seq(Received)
  BY <1>1, <1>2, <1>3, ConcatProperties
<1>13. QED
  BY <1>1, <1>8, <1>11, <1>12 DEF MiddlewareInv, BodyReplayed

\* They still cut it after the first is read.
LEMMA CutShortened ==
    ASSUME NEW s \in Seq(Symbols), NEW b \in Seq(Symbols), NEW box \in Seq(Messages), box # <<>>,
           NEW piece \in Seq(Symbols), Held(box[1]) = piece, b = SubSeq(s, 1, Len(b)),
           IsCut(s, b, box)
    PROVE  /\ IsCut(s, b \o piece, Tail(box))
           /\ b \o piece = SubSeq(s, 1, Len(b \o piece))
           /\ Len(box) = 1 => b \o piece = s
<1>0. PICK o : Cut(o, s, b, box)
  BY DEF IsCut
<1> DEFINE n == Len(box)
           new == Tail(box)
           w == b \o piece
           x == o[1]
           y == o[2]
<1>1. /\ n \in Nat \ {0} /\ Len(new) = n - 1
      /\ \A i \in 1..(n - 1) : new[i] = box[i + 1]
  BY HeadTailProperties
<1>2. /\ o \in [1..(n + 1) -> Nat] /\ x = Len(b) /\ o[n + 1] = Len(s)
      /\ \A i \in 1..(n + 1) : o[i] <= Len(s)
      /\ \A i \in 1..n : o[i] <= o[i + 1] /\ Held(box[i]) = SubSeq(s, o[i] + 1, o[i + 1])
  BY <1>0 DEF Cut
<1>3. x \in Nat /\ y \in Nat /\ x <= y /\ y <= Len(s) /\ piece = SubSeq(s, x + 1, y)
  <2>1. 1 \in 1..(n + 1) /\ 2 \in 1..(n + 1) /\ 1 \in 1..n /\ 1 + 1 = 2
    BY <1>1
  <2>2. QED
    BY <1>2, <2>1
<1>4. Len(s) \in Nat /\ \A k \in 1..Len(s) : s[k] \in Symbols
  BY ElementOfSeq
<1>5. /\ w \in Seq(Symbols) /\ Len(w) = x + Len(piece)
      /\ \A k \in 1..(x + Len(piece)) : w[k] = IF k <= x THEN b[k] ELSE piece[k - x]
  <2>1. x = Len(b)
    BY <1>2
  <2>2. QED
    BY <2>1, ConcatProperties
<1>6. b = SubSeq(s, 1, x)
  BY <1>2
<1> HIDE DEF n, new, w, x, y
<1>7. /\ SubSeq(s, x + 1, y) \in Seq(Symbols)
      /\ Len(SubSeq(s, x + 1, y)) = IF x + 1 <= y THEN y - (x + 1) + 1 ELSE 0
      /\ \A k \in 1..(y - (x + 1) + 1) : SubSeq(s, x + 1, y)[k] = s[(x + 1) + k - 1]
  <2>1. x + 1 \in Int /\ y \in Int /\ \A k \in (x + 1)..y : s[k] \in Symbols
    BY <1>3, <1>4
  <2>2. QED
    BY ONLY <2>1, SubSeqProperties
<1>8. Len(piece) = y - x /\ \A k \in 1..(y - x) : piece[k] = s[x + k]
  BY <1>3, <1>7
<1>9. \A z \in Nat : z <= Len(s) =>
        /\ SubSeq(s, 1, z) \in Seq(Symbols) /\ Len(SubSeq(s, 1, z)) = z
        /\ \A k \in 1..z : SubSeq(s, 1, z)[k] = s[k]
  <2> TAKE z \in Nat
  <2> HAVE z <= Len(s)
  <2>1. 1 \in Int /\ z \in Int /\ \A k \in 1..z : s[k] \in Symbols
    BY <1>4
  <2>2. /\ SubSeq(s, 1, z) \in Seq(Symbols) /\ Len(SubSeq(s, 1, z)) = IF 1 <= z THEN z - 1 + 1 ELSE 0
        /\ \A k \in 1..(z - 1 + 1) : SubSeq(s, 1, z)[k] = s[1 + k - 1]
    BY ONLY <2>1, SubSeqProperties
  <2>3. QED
    BY <2>2
<1>10. Len(w) = y /\ \A k \in 1..y : w[k] = s[k]
  <2>1. Len(w) = y /\ \A k \in 1..y : w[k] = IF k <= x THEN b[k] ELSE piece[k - x]
    <3>1. x + Len(piece) = y
      BY <1>3, <1>8
    <3>2. QED
      BY <1>5, <3>1
  <2>2. \A k \in 1..x : b[k] = s[k]
    <3>1. x <= Len(s)
      BY <1>3, <1>4
    <3>2. QED
      BY <1>3, <1>6, <1>9, <3>1
  <2>3. ASSUME NEW k \in 1..y PROVE w[k] = s[k]
    <3>1. CASE k <= x
      <4>1. k \in 1..x
        BY <1>3, <3>1
      <4>2. QED
        BY <2>1, <2>2, <3>1, <4>1
    <3>2. CASE ~(k <= x)
      <4>1. k - x \in 1..(y - x) /\ x + (k - x) = k
        BY <1>3, <3>2
      <4>2. QED
        BY <1>8, <2>1, <3>2, <4>1
    <3>3. QED
      BY <3>1, <3>2
  <2>4. QED
    BY <2>1, <2>3
<1>11. w = SubSeq(s, 1, y)
  <2>1. /\ SubSeq(s, 1, y) \in Seq(Symbols) /\ Len(SubSeq(s, 1, y)) = y
        /\ \A k \in 1..y : SubSeq(s, 1, y)[k] = s[k]
    BY <1>3, <1>9
  <2>2. Len(w) = Len(SubSeq(s, 1, y)) /\ \A k \in 1..Len(w) : w[k] = SubSeq(s, 1, y)[k]
    BY <1>10, <2>1
  <2>3. QED
    BY <1>5, <2>1, <2>2, SeqEqual
<1> DEFINE q == [i \in 1..n |-> o[i + 1]]
<1>12. /\ q \in [1..n -> Nat]
       /\ \A i \in 1..n : q[i] = o[i + 1] /\ q[i] <= Len(s)
  <2>1. \A i \in 1..n : i + 1 \in 1..(n + 1)
    BY <1>1
  <2>2. QED
    BY <1>2, <2>1
<1> HIDE DEF q
<1>13. q[1] = Len(w) /\ q[n] = Len(s) /\ Len(new) + 1 = n
  <2>1. 1 \in 1..n /\ n \in 1..n /\ 1 + 1 = 2
    BY <1>1
  <2>2. QED
    <3>1. q[1] = y
      BY <1>12, <2>1 DEF y
    <3>2. QED
      BY <1>1, <1>2, <1>10, <1>12, <2>1, <3>1
<1>14. ASSUME NEW i \in 1..(n - 1)
       PROVE  q[i] <= q[i + 1] /\ Held(new[i]) = SubSeq(s, q[i] + 1, q[i + 1])
  <2>1. i \in 1..n /\ i + 1 \in 1..n
    BY <1>1
  <2>2. q[i] = o[i + 1] /\ q[i + 1] = o[(i + 1) + 1] /\ new[i] = box[i + 1]
    BY <1>1, <1>12, <2>1
  <2>3. QED
    BY <1>2, <2>1, <2>2
<1>15. Cut(q, s, w, new)
  BY <1>1, <1>12, <1>13, <1>14 DEF Cut
<1>16. n = 1 => w = s
  <2>1. SubSeq(s, 1, Len(s)) = s
    <3>1. Len(s) <= Len(s)
      BY <1>4
    <3>2. /\ SubSeq(s, 1, Len(s)) \in Seq(Symbols) /\ Len(SubSeq(s, 1, Len(s))) = Len(s)
          /\ \A k \in 1..Len(s) : SubSeq(s, 1, Len(s))[k] = s[k]
      BY <1>4, <1>9, <3>1
    <3>3. QED
      BY <3>2, SeqEqual
  <2>2. n = 1 => y = Len(s)
    BY <1>2 DEF y
  <2>3. QED
    BY <1>11, <2>1, <2>2
<1>17. QED
  BY <1>10, <1>11, <1>15, <1>16 DEF w, new, n, IsCut

LEMMA ReadMiddleware ==
    ASSUME MiddlewareInv, Read
    PROVE  MiddlewareInv'
<1>1. /\ stage = "reading" /\ got = <<>> /\ got' = <<>> /\ sent' = sent /\ client' = client
      /\ ReadingInv /\ sent \in Seq(Symbols) /\ body \in Seq(Symbols) /\ inbox \in Seq(Messages)
      /\ client \in {"sending", "finished", "gone"}
  BY DEF MiddlewareInv, Read
<1>2. PICK msg \in Messages :
        /\ Receive(msg) /\ body' = body \o msg.body
        /\ stage' = IF Ends(msg) THEN "classifying" ELSE "reading"
  BY DEF Read
<1>3. msg.body \in Seq(Symbols)
  BY MessagesAreReceived DEF Received
<1>4. got' \in Seq(Received) /\ BodyReplayed'
  BY <1>1 DEF BodyReplayed
<1>5. CASE inbox = <<>>
  <2>1. msg = Disconnect /\ client # "sending" /\ client # "finished" /\ inbox' = inbox
    BY <1>1, <1>2, <1>5 DEF Receive, ReadingInv
  <2>2. stage' = "classifying" /\ body' = body
    BY <1>1, <1>2, <2>1 DEF Ends, Disconnect
  <2>3. QED
    BY <1>1, <1>4, <2>1, <2>2 DEF MiddlewareInv
<1>6. CASE inbox # <<>>
  <2>1. msg = Head(inbox) /\ inbox' = Tail(inbox)
    BY <1>2, <1>6 DEF Receive
  <2>2. /\ Len(inbox) \in Nat \ {0} /\ inbox' \in Seq(Messages) /\ Len(inbox') = Len(inbox) - 1
        /\ msg = inbox[1] /\ \A i \in 1..(Len(inbox) - 1) : inbox'[i] = inbox[i + 1]
    BY <1>1, <1>6, <2>1, HeadTailProperties
  <2>3. IsCut(sent, body, inbox)
    BY <1>1 DEF ReadingInv
  <2>4. body = SubSeq(sent, 1, Len(body))
    BY <1>1 DEF ReadingInv
  <2>5. /\ IsCut(sent', body', inbox')
        /\ body' = SubSeq(sent', 1, Len(body')) /\ body' \in Seq(Symbols)
        /\ Len(inbox) = 1 => body' = sent
    <3>1. inbox[1].body = msg.body /\ inbox' = Tail(inbox) /\ body' = body \o msg.body /\ sent' = sent
      BY <1>1, <1>2, <2>1, <2>2
    <3>2. /\ IsCut(sent, body \o msg.body, Tail(inbox))
          /\ body \o msg.body = SubSeq(sent, 1, Len(body \o msg.body))
          /\ Len(inbox) = 1 => body \o msg.body = sent
      <4>1. /\ sent \in Seq(Symbols) /\ body \in Seq(Symbols) /\ inbox \in Seq(Messages)
            /\ inbox # <<>> /\ msg.body \in Seq(Symbols) /\ Held(inbox[1]) = msg.body
        BY <1>1, <1>3, <1>6, <3>1 DEF Held
      <4>2. QED
        BY ONLY <4>1, <2>3, <2>4, CutShortened, ZenonT(40)
    <3>3. body \o msg.body \in Seq(Symbols)
      BY <1>1, <1>3, ConcatProperties
    <3>4. QED
      BY <3>1, <3>2, <3>3
  <2>6. ~msg.more <=> client = "finished" /\ Len(inbox) = 1
    BY <1>1, <2>2 DEF ReadingInv
  <2>7. CASE msg.more
    <3>1. stage' = "reading"
      BY <1>2, <2>7 DEF Ends
    <3>2. ASSUME NEW i \in 1..Len(inbox')
          PROVE  /\ inbox'[i].type = "http.request"
                 /\ ~inbox'[i].more <=> client' = "finished" /\ i = Len(inbox')
      <4>1. i + 1 \in 1..Len(inbox) /\ inbox'[i] = inbox[i + 1]
            /\ (i = Len(inbox') <=> i + 1 = Len(inbox))
        BY <2>2
      <4>2. QED
        BY <1>1, <4>1 DEF ReadingInv
    <3>3. client' = "finished" => inbox' # <<>>
      <4>1. client' = "finished" => Len(inbox') # 0
        BY <1>1, <2>2, <2>6, <2>7
      <4>2. QED
        BY <4>1
    <3>4. ReadingInv'
      BY <2>5, <3>2, <3>3 DEF ReadingInv
    <3>5. QED
      BY <1>1, <1>4, <2>2, <2>5, <3>1, <3>4 DEF MiddlewareInv
  <2>8. CASE ~msg.more
    <3>1. stage' = "classifying" /\ client' # "sending"
      BY <1>1, <1>2, <2>6, <2>8 DEF Ends
    <3>2. inbox' = <<>> /\ body' = sent'
      BY <1>1, <2>2, <2>5, <2>6, <2>8
    <3>3. QED
      BY <1>1, <1>4, <2>2, <2>5, <3>1, <3>2 DEF MiddlewareInv
  <2>9. QED
    BY <2>7, <2>8
<1>7. QED
  BY <1>5, <1>6

LEMMA AppMiddleware ==
    ASSUME MiddlewareInv, AppReceives
    PROVE  MiddlewareInv'
<1>1. /\ stage = "app" /\ UNCHANGED <<sent, client, stage, body, signals>>
      /\ inbox \in Seq(Messages) /\ got \in Seq(Received)
      /\ body \in Seq(Symbols)
      /\ client = "finished" => inbox = <<>> /\ body = sent
  BY DEF MiddlewareInv, AppReceives
<1>2. CASE got = <<>>
  <2>1. got' = <<Request(body, FALSE)>> /\ inbox' = inbox
    BY <1>2 DEF AppReceives
  <2>2. Request(body, FALSE) \in Received
    BY <1>1 DEF Request, Received
  <2>3. got' \in Seq(Received) /\ Len(got') = 1 /\ got'[1] = Request(body, FALSE)
    <3>1. \A r \in Received : <<r>> \in Seq(Received) /\ Len(<<r>>) = 1 /\ <<r>>[1] = r
      OBVIOUS
    <3>2. QED
      BY <2>1, <2>2, <3>1
  <2>4. BodyReplayed'
    BY <1>1, <2>3 DEF BodyReplayed
  <2>5. QED
    BY <1>1, <2>1, <2>3, <2>4 DEF MiddlewareInv
<1>3. CASE got # <<>>
  <2>1. PICK msg \in Messages : Receive(msg) /\ got' = Append(got, msg)
    BY <1>3 DEF AppReceives
  <2>2. inbox' \in Seq(Messages)
    <3>1. inbox' = inbox \/ (inbox # <<>> /\ inbox' = Tail(inbox))
      BY <2>1 DEF Receive
    <3>2. QED
      BY <1>1, <3>1, HeadTailProperties
  <2>3. client = "finished" => msg = Disconnect /\ inbox' = inbox
    BY <1>1, <2>1 DEF Receive
  <2>4. /\ got' \in Seq(Received) /\ Len(got') = Len(got) + 1 /\ Len(got) \in Nat \ {0}
        /\ \A i \in 1..Len(got) : got'[i] = got[i]
        /\ got'[Len(got) + 1] = msg
    BY <1>1, <1>3, <2>1, MessagesAreReceived, AppendProperties
  <2>5. BodyReplayed'
    <3>1. client = "finished" =>
            got[1] = Request(sent, FALSE) /\ \A i \in 2..Len(got) : got[i] = Disconnect
      BY <1>3 DEF MiddlewareInv, BodyReplayed
    <3>2. client' = "finished" => got'[1] = Request(sent', FALSE)
      <4>1. got'[1] = got[1] /\ sent' = sent /\ client' = client
        BY <1>1, <2>4
      <4>2. QED
        BY <3>1, <4>1
    <3>3. client' = "finished" => \A i \in 2..Len(got') : got'[i] = Disconnect
      BY <1>1, <2>3, <2>4, <3>1
    <3>4. QED
      BY <3>2, <3>3 DEF BodyReplayed
  <2>6. QED
    BY <1>1, <2>2, <2>3, <2>4, <2>5 DEF MiddlewareInv
<1>4. QED
  BY <1>2, <1>3

LEMMA NextMiddleware == MiddlewareInv /\ [MiddlewareNext]_middlewareVars => MiddlewareInv'
<1> SUFFICES ASSUME MiddlewareInv, [MiddlewareNext]_middlewareVars PROVE MiddlewareInv'
  OBVIOUS
<1>1. ASSUME Leave PROVE MiddlewareInv'
  <2>1. /\ client = "sending" /\ client' = "gone" /\ stage = "reading"
        /\ UNCHANGED <<sent, inbox, stage, body, signals, got>>
    BY <1>1 DEF Leave, MiddlewareInv
  <2>2. ReadingInv => ReadingInv'
    BY <2>1 DEF ReadingInv
  <2>3. QED
    BY <2>1, <2>2 DEF MiddlewareInv, BodyReplayed
<1>2. ASSUME Classify PROVE MiddlewareInv'
  BY <1>2 DEF Classify, MiddlewareInv, BodyReplayed
<1>3. ASSUME UNCHANGED middlewareVars PROVE MiddlewareInv'
  <2>1. UNCHANGED <<sent, client, inbox, stage, body, signals, got>>
    BY <1>3 DEF middlewareVars
  <2>2. ReadingInv' = ReadingInv
    BY <2>1 DEF ReadingInv
  <2>3. QED
    BY <2>1, <2>2 DEF MiddlewareInv, BodyReplayed
<1>4. QED
  BY <1>1, <1>2, <1>3, SendMiddleware, ReadMiddleware, AppMiddleware DEF MiddlewareNext

\* The application gets the whole of a body that arrived whole, as one message and one
\* time, for any texts, however many messages the client cut it into.
THEOREM BodyIsReplayed == MiddlewareSpec => []BodyReplayed
<1>1. MiddlewareInv => BodyReplayed
  BY DEF MiddlewareInv
<1>2. QED
  BY <1>1, InitMiddleware, NextMiddleware, PTL DEF MiddlewareSpec
=============================================================================
