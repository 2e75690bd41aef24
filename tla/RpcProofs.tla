----------------------------- MODULE RpcProofs -----------------------------
(***************************************************************************)
(* Proofs about the results of calls in Rpc: in a participant with virtual *)
(* time, where timeouts and answers are handled by one thread, a call that *)
(* has timed out gets no further result.                                   *)
(***************************************************************************)
EXTENDS Rpc, TLAPS

\* What the user is told of a call.
Outcome == {"Success", "InternalServerError", "UndefinedError", "ServerNotReachable", "Timeout"}

TimedOut(k) == results[k] # <<>> /\ Last(results[k]) = "Timeout"

CallsOf(c) == {k \in Call : Caller[k] = c}

ClientTables ==
    /\ calling \in [Participant -> Call \cup {NoCall}]
    /\ DOMAIN remaining \subseteq Call
    /\ timeouts \in [Participant -> SUBSET [call : Call, left : Int]]
    /\ receiving = [c \in Participant |-> receiving[c]]
    /\ results \in [Call -> Seq(Outcome)]

\* The messages s to p: responses reach the client that has made the call.
Addressed(s, p) ==
    /\ s \in Seq(Range(s))
    /\ \A m \in Range(s) : m.kind = "Response" => Caller[m.call] = p

Answers(w) ==
    /\ w = [q \in Participant |-> [p \in Participant |-> w[q][p]]]
    /\ \A p, q \in Participant : Addressed(w[q][p], p)

\* A call is in one phase at a time: begun and not yet active, active, of which
\* one may be the call whose response is being handled, or ended.
Begun(c) ==
    calling[c] # NoCall =>
        /\ calling[c] \in CallsOf(c) \ DOMAIN remaining
        /\ results[calling[c]] = <<>>

BeingAnswered(c) ==
    receiving[c] # NoResponse => receiving[c].call \in CallsOf(c) \cap DOMAIN remaining

CallsInv ==
    /\ ClientTables
    /\ Answers(wire)
    /\ \A c \in Participant : Begun(c) /\ BeingAnswered(c)
    /\ \A c \in Participant : \A e \in timeouts[c] : e.call \in CallsOf(c)
    /\ \A k \in Call : TimedOut(k) => k \notin DOMAIN remaining

-----------------------------------------------------------------------------
(* Messages on the way.                                                    *)

LEMMA OwnRange ==
    ASSUME NEW S, NEW u \in Seq(S)
    PROVE  u \in Seq(Range(u))
<1>1. Len(u) \in Nat /\ DOMAIN u = 1..Len(u) /\ u = [i \in 1..Len(u) |-> u[i]]
    OBVIOUS
<1>2. \A i \in 1..Len(u) : u[i] \in Range(u)
    BY <1>1 DEF Range
<1> QED BY <1>1, <1>2

LEMMA AppendAddressed ==
    ASSUME NEW s, NEW p, NEW m, Addressed(s, p), m.kind = "Response" => Caller[m.call] = p
    PROVE  Addressed(Append(s, m), p)
<1> DEFINE T == Range(s) \cup {m}
<1>1. s \in Seq(T)
    BY DEF Addressed
<1>2. Append(s, m) \in Seq(T)
    BY <1>1
<1>3. \A i \in DOMAIN s : i \in DOMAIN Append(s, m) /\ Append(s, m)[i] = s[i]
    BY <1>1
<1>4. Len(s) + 1 \in DOMAIN Append(s, m) /\ Append(s, m)[Len(s) + 1] = m
    BY <1>1
<1>5. \A i \in DOMAIN Append(s, m) : i \in DOMAIN s \/ i = Len(s) + 1
    BY <1>1
<1>6. Range(Append(s, m)) = T
    BY <1>3, <1>4, <1>5 DEF Range
<1> QED BY <1>2, <1>6 DEF Addressed

LEMMA TailAddressed ==
    ASSUME NEW s, NEW p, s # <<>>, Addressed(s, p)
    PROVE  /\ Addressed(Tail(s), p)
           /\ Head(s).kind = "Response" => Caller[Head(s).call] = p
<1>1. s \in Seq(Range(s))
    BY DEF Addressed
<1>2. \A i \in DOMAIN Tail(s) : i + 1 \in DOMAIN s /\ Tail(s)[i] = s[i + 1]
    BY <1>1
<1>3. Range(Tail(s)) \subseteq Range(s)
    BY <1>2 DEF Range
<1>4. Tail(s) \in Seq(Range(Tail(s)))
    <2>1. Tail(s) \in Seq(Range(s))
        BY <1>1
    <2> QED BY <2>1, OwnRange
<1>5. 1 \in DOMAIN s /\ Head(s) = s[1]
    BY <1>1
<1>6. Head(s) \in Range(s)
    BY <1>5 DEF Range
<1> QED BY <1>3, <1>4, <1>6 DEF Addressed

\* A crash may lose the end of what was sent.
LEMMA SubSeqAddressed ==
    ASSUME NEW s, NEW p, NEW n \in 0..Len(s), Addressed(s, p)
    PROVE  Addressed(SubSeq(s, 1, n), p)
<1>1. s \in Seq(Range(s)) /\ Len(s) \in Nat
    BY DEF Addressed
<1> DEFINE u == SubSeq(s, 1, n)
<1>2. Len(u) = n /\ u = [i \in 1..n |-> u[i]] /\ DOMAIN u = 1..n
    BY <1>1
<1>3. \A i \in 1..n : i \in DOMAIN s /\ u[i] = s[i]
    BY <1>1
<1>4. Range(u) \subseteq Range(s)
    BY <1>2, <1>3 DEF Range
<1>5. \A i \in 1..n : u[i] \in Range(u)
    BY <1>2 DEF Range
<1>6. u \in Seq(Range(u))
    BY <1>2, <1>5
<1> QED BY <1>4, <1>6 DEF Addressed

LEMMA EmptyAddressed == \A p : Addressed(<<>>, p)
BY DEF Addressed, Range

LEMMA SendAnswers ==
    ASSUME NEW w, Answers(w), NEW p \in Participant, NEW to, NEW m,
           \A q \in to : m.kind = "Response" => Caller[m.call] = q
    PROVE  Answers(SendTo(w, p, to, m))
<1>1. ASSUME NEW q \in to, q \in Participant
      PROVE  Addressed(Append(w[p][q], m), q)
    BY <1>1, AppendAddressed DEF Answers
<1> QED BY <1>1 DEF Answers, SendTo

-----------------------------------------------------------------------------
(* One lemma per action that changes the state of calls, or sends.         *)

LEMMA InitCalls == Init => CallsInv
<1> SUFFICES ASSUME Init PROVE CallsInv
    OBVIOUS
<1> USE DEF Init
<1>1. ClientTables
    BY CallAssumption DEF ClientTables, NoResponse
<1>2. Answers(wire)
    BY EmptyAddressed DEF Answers
<1>3. \A c \in Participant : Begun(c) /\ BeingAnswered(c)
    BY DEF Begun, BeingAnswered
<1>4. \A k \in Call : ~TimedOut(k)
    BY DEF TimedOut
<1> QED BY <1>1, <1>2, <1>3, <1>4 DEF CallsInv

\* The state of calls is left alone.
LEMMA CallsUnchanged ==
    ASSUME CallsInv, Answers(wire)', UNCHANGED clientVars
    PROVE  CallsInv'
<1>1. ClientTables'
    BY DEF CallsInv, ClientTables, clientVars
<1>2. \A c \in Participant : Begun(c)' /\ BeingAnswered(c)'
    BY DEF CallsInv, Begun, BeingAnswered, CallsOf, clientVars
<1>3. \A k \in Call : TimedOut(k)' => k \notin DOMAIN remaining'
    BY DEF CallsInv, TimedOut, clientVars
<1> QED BY <1>1, <1>2, <1>3 DEF CallsInv, CallsOf, clientVars

LEMMA BeginCallCalls ==
    ASSUME CallsInv, NEW call \in Call, BeginCall(call)
    PROVE  CallsInv'
<1> DEFINE c == Caller[call]
<1> USE CallAssumption, SubsetAssumption DEF CallsInv
<1>1. c \in Participant /\ calling[c] = NoCall /\ results[call] = <<>> /\ call \notin DOMAIN remaining
    BY DEF BeginCall, Made
<1>2. UNCHANGED <<wire, remaining, timeouts, receiving>>
    BY DEF BeginCall, discoveryVars
<1>3. CASE results' = Result(results, call, "ServerNotReachable") /\ calling' = calling
    <2>1. results' = [results EXCEPT ![call] = <<"ServerNotReachable">>]
        BY <1>1, <1>3 DEF Result, ClientTables
    <2>2. ClientTables'
        <3>1. <<"ServerNotReachable">> \in Seq(Outcome)
            BY DEF Outcome
        <3>2. results' \in [Call -> Seq(Outcome)]
            BY <2>1, <3>1 DEF ClientTables
        <3> QED BY <1>2, <1>3, <3>2 DEF ClientTables
    <2>3. \A d \in Participant : Begun(d)' /\ BeingAnswered(d)'
        <3>1. ASSUME NEW d \in Participant PROVE calling[d] # NoCall => calling[d] # call
            BY <1>1 DEF Begun, CallsOf
        <3> QED BY <1>2, <1>3, <2>1, <3>1 DEF Begun, BeingAnswered, CallsOf, ClientTables
    <2>4. ~TimedOut(call)'
        BY <2>1 DEF TimedOut, Last, ClientTables
    <2>5. \A k \in Call : TimedOut(k)' => k \notin DOMAIN remaining'
        BY <1>2, <2>1, <2>4 DEF TimedOut, ClientTables
    <2> QED BY <1>2, <2>2, <2>3, <2>5 DEF CallsOf
<1>4. CASE calling' = [calling EXCEPT ![c] = call] /\ results' = results
    <2>1. ClientTables'
        BY <1>2, <1>4 DEF ClientTables
    <2>2. \A d \in Participant : Begun(d)' /\ BeingAnswered(d)'
        BY <1>1, <1>2, <1>4 DEF Begun, BeingAnswered, CallsOf, ClientTables
    <2>3. \A k \in Call : TimedOut(k)' => k \notin DOMAIN remaining'
        BY <1>2, <1>4 DEF TimedOut
    <2> QED BY <1>2, <2>1, <2>2, <2>3 DEF CallsOf
<1> QED BY <1>3, <1>4 DEF BeginCall

LEMMA TriggerCallCalls ==
    ASSUME CallsInv, NEW call \in Call, TriggerCall(call)
    PROVE  CallsInv'
<1> DEFINE c == Caller[call]
<1> USE CallAssumption, SubsetAssumption DEF CallsInv
<1>1. c \in Participant /\ calling[c] = call /\ calling' = [calling EXCEPT ![c] = NoCall]
    BY DEF TriggerCall
<1>2. DOMAIN remaining' = DOMAIN remaining \cup {call}
    BY DEF TriggerCall, With
<1>3. UNCHANGED <<wire, results, receiving>>
    BY DEF TriggerCall, discoveryVars
<1>4. \A d \in Participant : timeouts'[d] \subseteq
          timeouts[d] \cup (IF d = c THEN {[call |-> call, left |-> Timeout[call]]} ELSE {})
    BY DEF TriggerCall, ClientTables
<1>5. ClientTables'
    <2>1. timeouts' \in [Participant -> SUBSET [call : Call, left : Int]]
        BY DEF TriggerCall, ClientTables
    <2> QED BY <1>1, <1>2, <1>3, <2>1 DEF ClientTables
<1>6. \A d \in Participant : Begun(d)'
    <2>1. ASSUME NEW d \in Participant, d # c PROVE calling[d] # NoCall => calling[d] # call
        BY <2>1 DEF Begun, CallsOf
    <2> QED BY <1>1, <1>2, <1>3, <2>1 DEF Begun, CallsOf, ClientTables
<1>7. \A d \in Participant : BeingAnswered(d)'
    BY <1>2, <1>3 DEF BeingAnswered, CallsOf
<1>8. \A d \in Participant : \A e \in timeouts'[d] : e.call \in CallsOf(d)
    BY <1>4 DEF CallsOf
<1>9. results[call] = <<>>
    BY <1>1 DEF Begun
<1>10. \A k \in Call : TimedOut(k)' => k \notin DOMAIN remaining'
    BY <1>2, <1>3, <1>9 DEF TimedOut
<1> QED BY <1>3, <1>5, <1>6, <1>7, <1>8, <1>10 DEF CallsOf

\* A timeout ends calls of the ticking participant only, and none of which a
\* response is being handled.
LEMMA TickCalls ==
    ASSUME CallsInv, ~TimerThread, NEW c \in Participant, Tick(c)
    PROVE  CallsInv'
<1> DEFINE ticked == {[e EXCEPT !.left = @ - 1] : e \in timeouts[c]}
           expired == {e.call : e \in {f \in ticked : f.left <= 0}}
<1> USE CallAssumption, SubsetAssumption DEF CallsInv
<1>1. /\ receiving[c].call = NoCall
      /\ timeouts' = [timeouts EXCEPT ![c] = {e \in ticked : e.left > 0}]
      /\ remaining' = Cancelled(c, expired)
      /\ results' = [k \in Call |-> IF k \in expired \cap DOMAIN remaining
                                    THEN Append(results[k], "Timeout") ELSE results[k]]
      /\ UNCHANGED <<wire, calling, receiving>>
    BY DEF Tick, discoveryVars
<1>2. ticked \subseteq [call : Call, left : Int] /\ \A e \in ticked : e.call \in CallsOf(c)
    <2>1. ASSUME NEW e \in timeouts[c]
          PROVE  /\ [e EXCEPT !.left = @ - 1] \in [call : Call, left : Int]
                 /\ [e EXCEPT !.left = @ - 1].call = e.call
        <3>1. e \in [call : Call, left : Int]
            BY DEF ClientTables
        <3> QED BY <3>1
    <2> QED BY <2>1
<1>3. expired \subseteq CallsOf(c)
    BY <1>2
<1> HIDE DEF ticked, expired
<1>4. DOMAIN remaining' = DOMAIN remaining \ expired
    BY <1>1 DEF Cancelled
<1>5. ClientTables'
    <2>1. \A k \in Call : Append(results[k], "Timeout") \in Seq(Outcome)
        BY DEF ClientTables, Outcome
    <2> QED BY <1>1, <1>2, <1>4, <2>1 DEF ClientTables
<1>6. \A d \in Participant : Begun(d)'
    BY <1>1, <1>4 DEF Begun, CallsOf
<1>7. \A d \in Participant : BeingAnswered(d)'
    BY <1>1, <1>3, <1>4 DEF BeingAnswered, CallsOf
<1>8. \A d \in Participant : \A e \in timeouts'[d] : e.call \in CallsOf(d)
    BY <1>1, <1>2 DEF CallsOf, ClientTables
<1>9. \A k \in Call : TimedOut(k)' => k \notin DOMAIN remaining'
    BY <1>1, <1>4 DEF TimedOut
<1> QED BY <1>1, <1>5, <1>6, <1>7, <1>8, <1>9 DEF CallsOf

LEMMA FinishReceivingCalls ==
    ASSUME CallsInv, NEW c \in Participant, FinishReceiving(c)
    PROVE  CallsInv'
<1> USE CallAssumption DEF CallsInv
<1>1. PICK call, outcome :
      /\ call = receiving[c].call /\ outcome = ToRpcCallStatus(receiving[c].status)
      /\ receiving[c] # NoResponse
      /\ receiving' = [receiving EXCEPT ![c] = NoResponse]
      /\ results' = Result(results, call, outcome)
      /\ remaining' = Decremented(c, call)
      /\ UNCHANGED <<wire, calling, timeouts>>
    BY DEF FinishReceiving, discoveryVars
<1>2. call \in CallsOf(c) \cap DOMAIN remaining
    BY <1>1 DEF BeingAnswered
<1>3. outcome \in Outcome \ {"Timeout"}
    BY <1>1 DEF ToRpcCallStatus, Outcome
<1>4. DOMAIN remaining' \subseteq DOMAIN remaining /\ DOMAIN remaining \ {call} \subseteq DOMAIN remaining'
    BY <1>1 DEF Decremented, Without
<1>5. results' = [results EXCEPT ![call] = Append(results[call], outcome)]
    BY <1>1 DEF Result
<1>6. Append(results[call], outcome) \in Seq(Outcome)
    BY <1>2, <1>3 DEF CallsOf, ClientTables
<1>7. ClientTables'
    <2>1. results' \in [Call -> Seq(Outcome)]
        BY <1>5, <1>6 DEF ClientTables
    <2> QED BY <1>1, <1>4, <2>1 DEF ClientTables
<1>8. \A d \in Participant : Begun(d)'
    <2>1. \A d \in Participant : calling[d] # NoCall => calling[d] # call
        BY <1>2 DEF Begun
    <2> QED BY <1>1, <1>4, <1>5, <2>1 DEF Begun, CallsOf, ClientTables
<1>9. \A d \in Participant : BeingAnswered(d)'
    <2>1. ASSUME NEW d \in Participant, d # c, receiving[d] # NoResponse
          PROVE  receiving[d].call # call
        BY <1>2, <2>1 DEF BeingAnswered, CallsOf
    <2>2. BeingAnswered(c)'
        BY <1>1 DEF BeingAnswered, ClientTables
    <2>3. ASSUME NEW d \in Participant, d # c PROVE BeingAnswered(d)'
        <3>1. receiving'[d] = receiving[d]
            BY <1>1, <2>3 DEF ClientTables
        <3> QED BY <1>4, <2>1, <2>3, <3>1 DEF BeingAnswered, CallsOf
    <2> QED BY <2>2, <2>3
<1>10. ~TimedOut(call)'
    <2>1. results'[call] = Append(results[call], outcome)
        BY <1>2, <1>5 DEF CallsOf, ClientTables
    <2>2. results[call] \in Seq(Outcome)
        BY <1>2 DEF CallsOf, ClientTables
    <2>3. Last(results'[call]) = outcome
        BY <1>3, <2>1, <2>2 DEF Last
    <2> QED BY <1>3, <2>3 DEF TimedOut
<1>11. \A k \in Call : TimedOut(k)' => k \notin DOMAIN remaining'
    BY <1>4, <1>5, <1>10 DEF TimedOut, ClientTables
<1> QED BY <1>1, <1>7, <1>8, <1>9, <1>11 DEF CallsOf

\* A response is only noticed for a call that is active, by the client that has
\* made it.
LEMMA FoundCalls ==
    ASSUME CallsInv, Answers(wire)', NEW c \in Participant, NEW call, NEW status,
           receiving' = Found(c, call, status), Caller[call] = c,
           UNCHANGED <<calling, remaining, timeouts, results>>
    PROVE  CallsInv'
<1> USE DEF CallsInv
<1>1. ClientTables'
    BY DEF ClientTables, Found
<1>2. \A d \in Participant : Begun(d)'
    BY DEF Begun, CallsOf
<1>3. \A d \in Participant : BeingAnswered(d)'
    <2>1. CASE call \in DOMAIN remaining
        <3>1. receiving' = [receiving EXCEPT ![c] = [call |-> call, status |-> status]]
            BY <2>1 DEF Found
        <3>2. call \in CallsOf(c)
            BY <2>1 DEF ClientTables, CallsOf
        <3>3. receiving'[c].call = call /\ \A d \in Participant \ {c} : receiving'[d] = receiving[d]
            BY <3>1 DEF ClientTables
        <3> QED BY <2>1, <3>2, <3>3 DEF BeingAnswered, CallsOf
    <2>2. CASE call \notin DOMAIN remaining
        BY <2>2 DEF Found, BeingAnswered, CallsOf
    <2> QED BY <2>1, <2>2
<1>4. \A k \in Call : TimedOut(k)' => k \notin DOMAIN remaining'
    BY DEF TimedOut
<1> QED BY <1>1, <1>2, <1>3, <1>4 DEF CallsOf

LEMMA RunTaskCalls ==
    ASSUME CallsInv, NEW p \in Participant, RunTask(p)
    PROVE  CallsInv'
<1> DEFINE t == Head(tasks[p])
           rest == [tasks EXCEPT ![p] = Tail(@)]
<1>0. Answers(wire)
    BY DEF CallsInv
<1>1. CASE RunRegister(p, t.client, rest)
    <2>1. Answers(wire)'
        BY <1>0, <1>1, SendAnswers DEF RunRegister
    <2> QED BY <1>1, <2>1, CallsUnchanged DEF RunRegister
<1>2. CASE RunAnnounce(p, t.service, rest)
    <2>1. Answers(wire)'
        BY <1>0, <1>2, SendAnswers DEF RunAnnounce
    <2> QED BY <1>2, <2>1, CallsUnchanged DEF RunAnnounce
<1>3. CASE RunAnnounceAll(p, t.to, t.services, rest)
    <2>1. Answers(wire)'
        BY <1>0, <1>3, SendAnswers DEF RunAnnounceAll
    <2> QED BY <1>3, <2>1, CallsUnchanged DEF RunAnnounceAll
<1>4. CASE RunCall(p, t.call, rest)
    <2>1. Answers(wire)'
        BY <1>0, <1>4, SendAnswers DEF RunCall
    <2> QED BY <1>4, <2>1, CallsUnchanged DEF RunCall
<1>5. CASE RunRespond(p, t.call, t.status, rest)
    <2> DEFINE c == Caller[t.call]
    <2>1. Answers(SendTo(wire, p, {c} \ {p}, [kind |-> "Response", call |-> t.call, status |-> t.status]))
        BY <1>0, SendAnswers
    <2>2. Answers(wire)'
        BY <1>5, <2>1 DEF RunRespond
    <2>3. CASE c = p
        BY <1>5, <2>2, <2>3, FoundCalls DEF RunRespond
    <2>4. CASE c # p
        BY <1>5, <2>2, <2>4, CallsUnchanged DEF RunRespond, clientVars
    <2> QED BY <2>3, <2>4
<1> QED BY <1>1, <1>2, <1>3, <1>4, <1>5 DEF RunTask

LEMMA ReceiveCalls ==
    ASSUME CallsInv, NEW p \in Participant, NEW q \in Participant, Receive(p, q)
    PROVE  CallsInv'
<1> DEFINE m == Head(wire[q][p])
<1>1. wire[q][p] # <<>> /\ wire' = [wire EXCEPT ![q][p] = Tail(@)]
    BY DEF Receive
<1>2. Addressed(Tail(wire[q][p]), p) /\ (m.kind = "Response" => Caller[m.call] = p)
    BY <1>1, TailAddressed DEF CallsInv, Answers
<1>3. Answers(wire)'
    <2>1. Answers(wire)
        BY DEF CallsInv
    <2>2. \A a, b \in Participant : wire'[a][b] = IF a = q /\ b = p THEN Tail(wire[q][p]) ELSE wire[a][b]
        BY <1>1, <2>1 DEF Answers
    <2>3. wire' = [a \in Participant |-> [b \in Participant |-> wire'[a][b]]]
        BY <1>1, <2>1 DEF Answers
    <2> QED BY <1>2, <2>1, <2>2, <2>3 DEF Answers
<1>4. CASE UNCHANGED clientVars
    BY <1>3, <1>4, CallsUnchanged
<1>5. CASE m.kind = "Response" /\ ReceiveResponse(p, m)
    BY <1>2, <1>3, <1>5, FoundCalls DEF ReceiveResponse
<1> QED BY <1>4, <1>5 DEF Receive, ReceiveSubscribe, ReceiveServices, ReceiveCall, ReceiveShutdown

\* What a participant that leaves still had to tell is lost from its end.
LEMMA LeaveCalls ==
    ASSUME CallsInv, NEW p \in Participant, Leave(p)
    PROVE  CallsInv'
<1> USE CallAssumption DEF CallsInv
<1>1. /\ calling' = [calling EXCEPT ![p] = NoCall]
      /\ receiving' = [receiving EXCEPT ![p] = NoResponse]
      /\ timeouts' = [timeouts EXCEPT ![p] = {}]
      /\ UNCHANGED <<remaining, results>>
    BY DEF Leave
<1>2. Answers(wire)'
    <2>1. PICK lost \in [Participant -> 0..MaxLost] :
           /\ \A q \in Participant :
                  lost[q] <= IF q \in Peers(p) THEN Len(wire[p][q]) ELSE 0
           /\ wire' = [q \in Participant |-> [r \in Participant |->
                 IF r = p THEN <<>>
                 ELSE IF q # p \/ ~Up(r) THEN wire[q][r]
                 ELSE Append(SubSeq(wire[p][r], 1, Len(wire[p][r]) - lost[r]),
                             [kind |-> "PeerShutdown"])]]
        BY DEF Leave
    <2>2. ASSUME NEW r \in Participant \ {p}, Up(r)
          PROVE  Addressed(Append(SubSeq(wire[p][r], 1, Len(wire[p][r]) - lost[r]),
                                  [kind |-> "PeerShutdown"]), r)
        <3>1. lost[r] <= Len(wire[p][r]) /\ lost[r] \in Nat
            BY <2>1, <2>2 DEF Peers
        <3>2. Addressed(wire[p][r], r) /\ Len(wire[p][r]) \in Nat
            BY DEF Answers, Addressed
        <3>3. Len(wire[p][r]) - lost[r] \in 0..Len(wire[p][r])
            BY <3>1, <3>2
        <3>4. Addressed(SubSeq(wire[p][r], 1, Len(wire[p][r]) - lost[r]), r)
            BY <3>2, <3>3, SubSeqAddressed
        <3> QED BY <3>4, AppendAddressed
    <2>3. \A q, r \in Participant : Addressed(wire'[q][r], r)
        BY <2>1, <2>2, EmptyAddressed DEF Answers
    <2>4. wire' = [q \in Participant |-> [r \in Participant |-> wire'[q][r]]]
        BY <2>1
    <2> QED BY <2>3, <2>4 DEF Answers
<1>3. ClientTables'
    BY <1>1 DEF ClientTables
<1>4. \A c \in Participant : Begun(c)' /\ BeingAnswered(c)'
    BY <1>1 DEF Begun, BeingAnswered, CallsOf, ClientTables
<1>5. \A c \in Participant : \A e \in timeouts'[c] : e.call \in CallsOf(c)
    BY <1>1 DEF CallsOf, ClientTables
<1>6. \A k \in Call : TimedOut(k)' => k \notin DOMAIN remaining'
    BY <1>1 DEF TimedOut
<1> QED BY <1>2, <1>3, <1>4, <1>5, <1>6 DEF CallsOf

LEMMA NextCalls ==
    ASSUME ~TimerThread, CallsInv, [Next]_vars
    PROVE  CallsInv'
<1>1. Answers(wire)
    BY DEF CallsInv
<1>2. ASSUME NEW p \in Participant, Join(p) PROVE CallsInv'
    <2>1. Answers(wire)'
        BY <1>1, <1>2, SendAnswers DEF Join
    <2> QED BY <1>2, <2>1, CallsUnchanged DEF Join
<1>3. ASSUME NEW p \in Participant,
             AnnounceDiscovery(p) \/ CreateRpcClient(p) \/ CountServers(p) \/ CreateRpcServer(p)
      PROVE  CallsInv'
    <2>1. UNCHANGED <<wire, clientVars>>
        BY <1>3 DEF AnnounceDiscovery, CreateRpcClient, CountServers, CreateRpcServer
    <2> QED BY <1>1, <2>1, CallsUnchanged DEF Answers
<1>4. ASSUME NEW s \in Server, NEW call \in Call, SubmitResult(s, call) PROVE CallsInv'
    BY <1>1, <1>4, CallsUnchanged DEF SubmitResult, Answers
<1>5. CASE UNCHANGED vars
    BY <1>1, <1>5, CallsUnchanged DEF vars, Answers
<1> QED
    BY <1>2, <1>3, <1>4, <1>5, BeginCallCalls, TriggerCallCalls, TickCalls, RunTaskCalls,
       FinishReceivingCalls, LeaveCalls, ReceiveCalls DEF Next

-----------------------------------------------------------------------------
\* Of a participant with virtual time: a call is in one phase at a time, its
\* timeout and its answers are handled by the client that has made it, and it is
\* not active any more when it has timed out.
THEOREM CallsHold ==
    ASSUME ~TimerThread
    PROVE  Spec => []CallsInv
<1>1. CallsInv /\ [Next]_vars => CallsInv'
    BY NextCalls
<1> QED BY <1>1, InitCalls, PTL DEF Spec

\* CallWithTimeout, in a participant with virtual time: when the user has been
\* told that a call has timed out, no further result of it follows. Whatever
\* answers are on the way or being handled, TimeHandler has erased the call
\* before ReceiveMessage looks for it, or does not run until it is done.
THEOREM NothingAfterTimeoutHolds ==
    ASSUME ~TimerThread
    PROVE  Spec => NothingAfterTimeout
<1>1. ASSUME CallsInv, [Next]_vars, NEW k \in Call, TimedOut(k)
      PROVE  results'[k] = results[k]
    <2>1. k \notin DOMAIN remaining /\ results \in [Call -> Seq(Outcome)]
        BY <1>1 DEF CallsInv, ClientTables
    <2>2. ASSUME NEW call \in Call, BeginCall(call) PROVE results'[k] = results[k]
        <3>1. results[call] = <<>> /\ results[k] # <<>>
            BY <1>1, <2>2 DEF BeginCall, Made, TimedOut
        <3> QED BY <2>1, <2>2, <3>1 DEF BeginCall, Result
    <2>3. ASSUME NEW c \in Participant, Tick(c) PROVE results'[k] = results[k]
        BY <2>1, <2>3 DEF Tick
    <2>4. ASSUME NEW c \in Participant, FinishReceiving(c) PROVE results'[k] = results[k]
        <3>1. receiving[c].call \in DOMAIN remaining
            BY <1>1, <2>4 DEF CallsInv, BeingAnswered, FinishReceiving
        <3> QED BY <2>1, <2>4, <3>1 DEF FinishReceiving, Result
    <2>5. ASSUME NEW p \in Participant, NEW q \in Participant, Receive(p, q)
          PROVE  UNCHANGED results
        BY <2>5 DEF Receive, ReceiveSubscribe, ReceiveServices, ReceiveCall, ReceiveResponse,
            ReceiveShutdown, clientVars
    <2>6. ASSUME NEW p \in Participant, RunTask(p)
          PROVE  UNCHANGED results
        BY <2>6 DEF RunTask, RunRegister, RunAnnounce, RunAnnounceAll, RunCall, RunRespond, clientVars
    <2>7. ASSUME NEW p \in Participant,
                 \/ Join(p) \/ AnnounceDiscovery(p) \/ CreateRpcClient(p) \/ CountServers(p)
                 \/ CreateRpcServer(p) \/ Leave(p)
          PROVE  UNCHANGED results
        BY <2>7 DEF Join, AnnounceDiscovery, CreateRpcClient, CountServers, CreateRpcServer, Leave,
            clientVars
    <2>8. ASSUME NEW call \in Call, TriggerCall(call) PROVE UNCHANGED results
        BY <2>8 DEF TriggerCall
    <2>9. ASSUME NEW s \in Server, NEW call \in Call, SubmitResult(s, call) PROVE UNCHANGED results
        BY <2>9 DEF SubmitResult, clientVars
    <2> QED
        BY <1>1, <2>2, <2>3, <2>4, <2>5, <2>6, <2>7, <2>8, <2>9 DEF Next, vars, clientVars
<1>2. CallsInv /\ [Next]_vars
          => [\A k \in Call : results[k] # <<>> /\ Last(results[k]) = "Timeout"
                  => results'[k] = results[k]]_vars
    BY <1>1 DEF TimedOut
<1> QED BY <1>2, CallsHold, PTL DEF Spec, NothingAfterTimeout
=============================================================================
