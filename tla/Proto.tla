------------------------------- MODULE Proto -------------------------------
(***************************************************************************)
(* The control plane of src/coordinator/proto.go: one TCP connection per   *)
(* agent, broadcastMessage followed by one of the collect loops, and the   *)
(* agent at the other end (outside src/, modelled from spec 4.A-4.D).      *)
(*                                                                         *)
(* toAgent[a] holds the requests written to agent a and not yet served;    *)
(* toCoord[a] holds the reply bytes that reached the coordinator's socket  *)
(* and were not yet read.  Each reply carries the id of the request it     *)
(* answers; the id is history only, the bytes on the wire do not have it.  *)
(*                                                                         *)
(* A command is issued by the driver (Driver.tla) with Issue.  Writing the *)
(* frame to every target is one step: nothing the coordinator observes can *)
(* happen between two writes of broadcastMessage.  The collect loop then   *)
(* reads the targets in order; a read either returns what has arrived or  *)
(* hits the read deadline when nothing has.                                *)
(*                                                                         *)
(* With ShortReads, a 12-byte msg1 reply (a CONN_OPEN answer or an ACK)    *)
(* may reach the socket in two pieces, its head and its tail, and a read  *)
(* may return the head alone.  Each piece of toCoord is a chunk: the      *)
(* reply's info and id, and part ("whole", "head" or "tail").  Stats      *)
(* replies are not split here; Qual models their short read.              *)
(***************************************************************************)
EXTENDS Naturals, Sequences, SequencesExt

CONSTANTS
    AckCode,     \* C.REPLY_ACK
    ThCode,      \* C.REPLY_STATS_THROUGHPUT
    LatCode,     \* C.REPLY_STATS_LATENCY
    ShortReads   \* whether a read may return part of a reply

ASSUME {AckCode, ThCode, LatCode} \subseteq Nat /\ ShortReads \in BOOLEAN

VARIABLES toAgent, toCoord, cmd, nextId,
          crashed   \* agents whose process has died

protoVars == <<toAgent, toCoord, cmd, nextId, crashed>>

Kinds == {"CONN_OPEN", "START_LOAD", "START_MEASURE", "REPORT_TH", "REPORT_LAT"}

NoCmd == [kind |-> "none", id |-> 0, targets |-> << >>, idx |-> 1,
          vals |-> << >>, status |-> "idle"]

ProtoInit(agents) ==
    /\ toAgent = [a \in agents |-> << >>]
    /\ toCoord = [a \in agents |-> << >>]
    /\ cmd = NoCmd
    /\ nextId = 1
    /\ crashed = {}

(* The reply an agent sends for a request: the connection-open flag for   *)
(* CONN_OPEN (the agent's connections to the target may not be up yet),   *)
(* an ACK for START_LOAD and START_MEASURE, a stats reply for REPORT_REQ.  *)
AgentReplies(req) ==
    CASE req.kind = "CONN_OPEN"  -> {[info |-> v, id |-> req.id] : v \in {0, 1}}
      [] req.kind = "REPORT_TH"  -> {[info |-> ThCode, id |-> req.id]}
      [] req.kind = "REPORT_LAT" -> {[info |-> LatCode, id |-> req.id]}
      [] OTHER                   -> {[info |-> AckCode, id |-> req.id]}

Chunk(r, part) == [info |-> r.info, id |-> r.id, part |-> part]

(* How reply r to a request of kind reaches the socket: whole, or as head *)
(* then tail.  binary.Write of a msg1 is 12 bytes, one conn.Write.        *)
Deliveries(r, kind) ==
    {<<Chunk(r, "whole")>>} \cup
    IF ShortReads /\ kind \notin {"REPORT_TH", "REPORT_LAT"}
    THEN {<<Chunk(r, "head"), Chunk(r, "tail")>>} ELSE {}

(* The values an info field parsed from misaligned bytes can take, up to  *)
(* what every check tells apart: zero, ACK, the stats codes, and 1 for    *)
(* any other non-zero value.                                               *)
InfoClasses == {0, 1, AckCode, ThCode, LatCode}

(* binary.Read of a msg1 from the data buffer after a read that returned  *)
(* the first k chunks: Info is bytes 8-11, little endian, and the buffer   *)
(* is zero past what was read.  A head alone has the low byte of Info or   *)
(* none of it (Info < 256 here); a head read with its tail is the whole    *)
(* reply; a tail alone is at most 11 bytes of which bytes 8-11 are Info's  *)
(* zero high bytes; a tail followed by the next reply puts that reply's    *)
(* header bytes under Info.                                                *)
Parsed(chunks, k) ==
    LET c == Head(chunks) IN
    CASE c.part = "whole"          -> {c.info}
      [] c.part = "head" /\ k = 1  -> {0, c.info}
      [] c.part = "head"           -> {c.info}
      [] c.part = "tail" /\ k = 1  -> {0}
      [] OTHER                     -> InfoClasses

(* The check a collect loop makes on the first message of a read:         *)
(* collectValues takes reply.Info without looking at it, collectAcks wants *)
(* REPLY_ACK, the stats collectors want the matching REPLY_STATS prelude. *)
Accepts(kind, info) ==
    CASE kind = "CONN_OPEN"  -> TRUE
      [] kind = "REPORT_TH"  -> info = ThCode
      [] kind = "REPORT_LAT" -> info = LatCode
      [] OTHER               -> info = AckCode

(* startLoad, startMeasure, reportThroughput, reportLatency,              *)
(* check_conn_open: format the frame and broadcastMessage it to the       *)
(* targets in order, then collect.  An empty target list collects nothing *)
(* and succeeds at once.  A write to a crashed agent may still be taken   *)
(* by its socket (and lost) or fail; the first failing write returns the  *)
(* error, after the frames to the agents before it were sent.             *)
Issue(kind, targets) ==
    /\ cmd.status \in {"idle", "ok", "err"}
    /\ \E w \in {Len(targets)} \cup {k - 1 : k \in {k \in DOMAIN targets : targets[k] \in crashed}} :
         LET sent == ToSet(SubSeq(targets, 1, w)) \ crashed IN
         /\ toAgent' = [a \in DOMAIN toAgent |->
                          IF a \in sent
                          THEN Append(toAgent[a], [kind |-> kind, id |-> nextId])
                          ELSE toAgent[a]]
         /\ cmd' = [kind |-> kind, id |-> nextId, targets |-> targets, idx |-> 1,
                    vals |-> << >>,
                    status |-> CASE w < Len(targets) -> "err"
                                 [] targets = << >>  -> "ok"
                                 [] OTHER            -> "busy"]
    /\ nextId' = nextId + 1
    /\ UNCHANGED crashed

\* Mutant: the loop ends one agent early.
AdvanceOffByOne(c, r) ==
    [c EXCEPT !.vals = Append(@, r), !.idx = @ + 1,
              !.status = IF c.idx + 1 >= Len(c.targets) THEN "ok" ELSE "busy"]

\* An accepted reply: keep it and move to the next agent, or finish.
Advance(c, r) ==
    [c EXCEPT !.vals = Append(@, r), !.idx = @ + 1,
              !.status = IF c.idx = Len(c.targets) THEN "ok" ELSE "busy"]

\* Mutant: a failed read skips the agent instead of failing the command.
FailSkip(c) ==
    [c EXCEPT !.idx = @ + 1,
              !.status = IF c.idx = Len(c.targets) THEN "ok" ELSE "busy"]

\* A read deadline or a rejected reply returns the error from the loop.
Fail(c) == [c EXCEPT !.status = "err"]

(* a.conn.Read(data) into a 64- or 1024-byte buffer returns the chunks    *)
(* that have arrived (the first k, as TCP delivered them), binary.Read    *)
(* parses a msg1 from the front (Parsed), and the rest is dropped.  The   *)
(* reply kept is the parsed Info with the id of the chunk read first.     *)
CollectRead ==
    /\ cmd.status = "busy"
    /\ LET a == cmd.targets[cmd.idx] IN
       /\ toCoord[a] # << >>
       /\ \E k \in 1..Len(toCoord[a]) :
          \E v \in Parsed(toCoord[a], k) :
            LET r == [info |-> v, id |-> Head(toCoord[a]).id] IN
            /\ toCoord' = [toCoord EXCEPT ![a] = SubSeq(@, k + 1, Len(@))]
            /\ cmd' = IF Accepts(cmd.kind, v) THEN Advance(cmd, r)
                      ELSE Fail(cmd)
    /\ UNCHANGED <<toAgent, nextId, crashed>>

\* Mutant: the read has no deadline (SetReadDeadline dropped).
CollectTimeoutNever == FALSE

\* SetReadDeadline fires before the agent's reply has arrived.
CollectTimeout ==
    /\ cmd.status = "busy"
    /\ toCoord[cmd.targets[cmd.idx]] = << >>
    /\ cmd' = Fail(cmd)
    /\ UNCHANGED <<toAgent, toCoord, nextId, crashed>>

\* Agent a serves its oldest request and writes the reply.
AgentServe(a) ==
    /\ a \notin crashed /\ toAgent[a] # << >>
    /\ \E r \in AgentReplies(Head(toAgent[a])) :
         \E d \in Deliveries(r, Head(toAgent[a]).kind) :
           toCoord' = [toCoord EXCEPT ![a] = @ \o d]
    /\ toAgent' = [toAgent EXCEPT ![a] = Tail(@)]
    /\ UNCHANGED <<cmd, nextId, crashed>>

(* Agent a's process dies: the requests it had not served are lost, the   *)
(* replies already on the wire still arrive.  A read from it fails like   *)
(* a deadline (CollectTimeout).                                            *)
AgentCrash(a) ==
    /\ a \notin crashed
    /\ crashed' = crashed \cup {a}
    /\ toAgent' = [toAgent EXCEPT ![a] = << >>]
    /\ UNCHANGED <<toCoord, cmd, nextId>>
=============================================================================
