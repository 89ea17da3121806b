---------------------------- MODULE RequestReply ----------------------------
(***************************************************************************)
(* What the remote access bridge promises a client: a request names a home *)
(* server, is carried out at most once and only there, and is answered at  *)
(* most once, either with what that server made of it, or with a timeout,  *)
(* or with the news that the server is not connected, and is then not      *)
(* carried out at all.                                                     *)
(***************************************************************************)
CONSTANTS Requests, Servers, Results

VARIABLES
    target,   \* the server each request asked for names
    handled,  \* each time a request was carried out: where, and with what result
    answer    \* the answer each request got

NoAnswer == "none"
Timeout == "timeout"
Offline == "offline"
Answers == Results \cup {NoAnswer, Timeout, Offline}

replyVars == <<target, handled, answer>>

Asked(r) == r \in DOMAIN target
Open(r) == Asked(r) /\ answer[r] = NoAnswer

AskFor(r, s) ==
    /\ ~ Asked(r)
    /\ target' = [q \in DOMAIN target \cup {r} |-> IF q = r THEN s ELSE target[q]]

Ask(r, s) == AskFor(r, s) /\ UNCHANGED <<handled, answer>>

Refuse(r, s) ==
    /\ AskFor(r, s)
    /\ answer' = [answer EXCEPT ![r] = Offline]
    /\ UNCHANGED handled

(* It may come too late: the client may have its timeout already. *)
Handle(r, x) ==
    /\ Asked(r) /\ answer[r] \in {NoAnswer, Timeout}
    /\ handled[r] = <<>>
    /\ handled' = [handled EXCEPT ![r] = <<[server |-> target[r], result |-> x]>>]
    /\ UNCHANGED <<target, answer>>

Reply(r) ==
    /\ Open(r)
    /\ handled[r] # <<>>
    /\ answer' = [answer EXCEPT ![r] = handled[r][1].result]
    /\ UNCHANGED <<target, handled>>

GiveUp(r) ==
    /\ Open(r)
    /\ answer' = [answer EXCEPT ![r] = Timeout]
    /\ UNCHANGED <<target, handled>>

Init ==
    /\ target = [q \in {} |-> 0]
    /\ handled = [r \in Requests |-> <<>>]
    /\ answer = [r \in Requests |-> NoAnswer]

Next ==
    \E r \in Requests :
        \/ \E s \in Servers : Ask(r, s) \/ Refuse(r, s)
        \/ \E x \in Results : Handle(r, x)
        \/ Reply(r) \/ GiveUp(r)

Spec == Init /\ [][Next]_replyVars

=============================================================================
