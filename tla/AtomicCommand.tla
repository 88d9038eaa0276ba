--------------------------- MODULE AtomicCommand ---------------------------
(***************************************************************************)
(* What a coordinator command promises (spec 4.C, 4.D, 5 and 8.2): a       *)
(* command sent to a list of agents either returns, in list order, each    *)
(* agent's own answer to this request, or fails with the answers of a     *)
(* prefix of the list (none when sending fails); and every command        *)
(* returns.  Nothing is said about sockets, deadlines, crashed agents or  *)
(* what an agent sends late.                                               *)
(*                                                                         *)
(* acmd is the command last issued: its kind, id, targets, the answers     *)
(* returned (empty while it runs) and its status.                          *)
(***************************************************************************)
EXTENDS Naturals, Sequences, FiniteSets

CONSTANTS
    AckCode, ThCode, LatCode,   \* reply codes, as in Proto
    Agents                      \* the agents commands are sent to

VARIABLES acmd, aid

avars == <<acmd, aid>>

AKinds == {"CONN_OPEN", "START_LOAD", "START_MEASURE", "REPORT_TH", "REPORT_LAT"}

\* The target lists a command may name: agents without repetition.
TargetLists ==
    {s \in UNION {[1..n -> Agents] : n \in 0..Cardinality(Agents)} :
        \A i, j \in DOMAIN s : i # j => s[i] # s[j]}

\* The answers an agent may give to request id of a kind (spec 4.A-4.B).
Answers(kind, id) ==
    {[info |-> v, id |-> id] :
        v \in CASE kind = "CONN_OPEN"  -> {0, 1}
                [] kind = "REPORT_TH"  -> {ThCode}
                [] kind = "REPORT_LAT" -> {LatCode}
                [] OTHER               -> {AckCode}}

\* The answers of the first n targets, each to this command.
AnswerLists(c, n) == [1..n -> Answers(c.kind, c.id)]

AInit ==
    /\ acmd = [kind |-> "none", id |-> 0, targets |-> << >>, vals |-> << >>,
               status |-> "idle"]
    /\ aid = 1

AIssue(kind, targets) ==
    /\ acmd.status # "busy"
    /\ \E st \in IF targets = << >> THEN {"ok"} ELSE {"busy", "err"} :
         acmd' = [kind |-> kind, id |-> aid, targets |-> targets, vals |-> << >>,
                  status |-> st]
    /\ aid' = aid + 1

ASucceed ==
    /\ acmd.status = "busy"
    /\ \E v \in AnswerLists(acmd, Len(acmd.targets)) :
         acmd' = [acmd EXCEPT !.vals = v, !.status = "ok"]
    /\ UNCHANGED aid

AFail ==
    /\ acmd.status = "busy"
    /\ \E n \in 0..(Len(acmd.targets) - 1) :
         \E v \in AnswerLists(acmd, n) :
           acmd' = [acmd EXCEPT !.vals = v, !.status = "err"]
    /\ UNCHANGED aid

ANext ==
    \/ \E kind \in AKinds, targets \in TargetLists : AIssue(kind, targets)
    \/ ASucceed
    \/ AFail

\* A command in progress returns: it succeeds or fails, never hangs.
ASpec == AInit /\ [][ANext]_avars /\ WF_avars(ASucceed \/ AFail)
=============================================================================
