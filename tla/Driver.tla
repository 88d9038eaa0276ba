------------------------------ MODULE Driver -------------------------------
(***************************************************************************)
(* The pattern driver of src/coordinator/coordinator.go over the control  *)
(* plane of Proto: stepPattern calling fixedPattern once per load, and     *)
(* fixedPattern's command sequence -- load() (check_conn_open polled up to *)
(* maxPolls times, startLoad to the loading agents, startLoad to the       *)
(* latency agents), startMeasure to all agents, reportThroughput from the  *)
(* throughput agents, reportLatency from the latency and symmetric agents. *)
(* NSteps = 1 is the one-shot fixed pattern, whose first error returns     *)
(* from runExp; with NSteps > 1 an error is printed and the next load is   *)
(* run on the same connections.                                            *)
(*                                                                         *)
(* Before runExp, main (src/coordinator/main.go) checks the ssh key,      *)
(* launches every agent over ssh (deploy.go) or, with -printAgentArgs,     *)
(* only records its arguments and exits 0, then dials one control         *)
(* connection per agent.  Any failure prints and exits 1.                  *)
(*                                                                         *)
(* Agents are numbered thAgents, then ltAgents, then symAgents, the order  *)
(* of main's launch and dial loops.  Sleeps                                *)
(* are not modelled: how long an agent takes to answer, against the read   *)
(* deadline, is the agent's nondeterministic speed in Proto.               *)
(***************************************************************************)
EXTENDS Proto, Integers

CONSTANTS
    NTh, NLt, NSym,   \* numbers of throughput, latency, symmetric agents
    NSteps,           \* loads of the step pattern: |start..end by step|
    MaxPolls          \* check_conn_open attempts in load(): 60

ASSUME /\ {NTh, NLt, NSym} \subseteq Nat /\ NTh + NLt + NSym > 0
       /\ NSteps \in Nat \ {0} /\ MaxPolls \in Nat \ {0}

VARIABLES
    pc,        \* the command of fixedPattern in progress, "start" or "done"
    step,      \* the load step of stepPattern
    polls,     \* i of the polling loop in load()
    outcome,   \* what each fixedPattern call returned
    gcfg,      \* generalCfg: [run |-> -runAgents, print |-> -printAgentArgs]
    ai,        \* the agent main's launch or dial loop is at
    printed,   \* agents in agentArgsMap
    launched,  \* agents with an ssh session running lancet
    dialed     \* agents with a control connection (a.conn set)

startVars == <<gcfg, ai, printed, launched, dialed>>
vars == <<toAgent, toCoord, cmd, nextId, crashed, pc, step, polls, outcome,
          gcfg, ai, printed, launched, dialed>>
driverVars == <<pc, step, polls, outcome, gcfg, ai, printed, launched, dialed>>

Th  == [i \in 1..NTh |-> i]
Lt  == [i \in 1..NLt |-> NTh + i]
Sym == [i \in 1..NSym |-> NTh + NLt + i]
Agents == 1..(NTh + NLt + NSym)

NAgents == NTh + NLt + NSym

\* GeneralConfig: -runAgents and -printAgentArgs, any combination.
GeneralConfigs == [run : BOOLEAN, print : BOOLEAN]

Init ==
    /\ ProtoInit(Agents)
    /\ pc = "config"
    /\ step = 1
    /\ polls = 0
    /\ outcome = << >>
    /\ gcfg \in GeneralConfigs
    /\ ai = 1
    /\ printed = {} /\ launched = {} /\ dialed = {}

(* ParseConfig: with -runAgents the private key must exist and not be a   *)
(* directory, or main prints the error and exits 1.                       *)
ParseConfig ==
    /\ pc = "config"
    /\ \/ pc' = "launch"
       \/ gcfg.run /\ pc' = "exit1"
    /\ UNCHANGED <<ai, printed, launched, dialed>>

(* runAgent: read and parse the key, ssh.Dial, open a session with a pty  *)
(* and pipes, and start lancet with go session.Run, whose result nobody    *)
(* reads.  Any of the first steps may fail.  ssh.ClientConfig sets no      *)
(* Timeout, so a host that accepts the TCP connection and never completes  *)
(* the handshake blocks ssh.Dial, and main, for ever ("sshStalled").       *)
RunAgent(a) ==
    \/ launched' = launched \cup {a} /\ ai' = ai + 1 /\ UNCHANGED pc
    \/ pc' = "exit1" /\ UNCHANGED <<launched, ai>>
    \/ pc' = "sshStalled" /\ UNCHANGED <<launched, ai>>

(* One iteration of main's three launch loops: record the agent's         *)
(* arguments, or launch it, or (agents started by hand) only create it.   *)
LaunchAgent ==
    /\ pc = "launch" /\ ai <= NAgents
    /\ IF gcfg.print THEN printed' = printed \cup {ai} /\ ai' = ai + 1
                          /\ UNCHANGED <<pc, launched>>
       ELSE IF gcfg.run THEN RunAgent(ai) /\ UNCHANGED printed
       ELSE ai' = ai + 1 /\ UNCHANGED <<pc, printed, launched>>
    /\ UNCHANGED dialed

(* After the loops: print the JSON map and exit 0, or (after the 5 s sleep *)
(* given to launched agents) go on to the connections.                     *)
LaunchesDone ==
    /\ pc = "launch" /\ ai > NAgents
    /\ IF gcfg.print THEN pc' = "exit0" /\ UNCHANGED ai
                     ELSE pc' = "dial" /\ ai' = 1
    /\ UNCHANGED <<printed, launched, dialed>>

(* ResolveTCPAddr and DialTCP to the agent port.  It fails when nothing   *)
(* listens there: the agent died, or has not started within the sleep;    *)
(* main then exits 1.  It may fail for any agent, since the agent's start *)
(* is not observed.                                                        *)
DialAgent ==
    /\ pc = "dial" /\ ai <= NAgents
    /\ \/ ai \notin crashed /\ dialed' = dialed \cup {ai} /\ ai' = ai + 1
          /\ UNCHANGED pc
       \/ pc' = "exit1" /\ UNCHANGED <<dialed, ai>>
    /\ UNCHANGED <<printed, launched>>

\* Every connection is open: c.runExp(...).
DialsDone ==
    /\ pc = "dial" /\ ai > NAgents
    /\ pc' = "start"
    /\ UNCHANGED <<ai, printed, launched, dialed>>

Startup ==
    /\ ParseConfig \/ LaunchAgent \/ LaunchesDone \/ DialAgent \/ DialsDone
    /\ UNCHANGED <<toAgent, toCoord, cmd, nextId, crashed, step, polls, outcome, gcfg>>

Finished == cmd.status \in {"ok", "err"}

(* fixedPattern returned r: stepPattern prints an error and moves to the  *)
(* next load; after the last load (or in the one-shot pattern) it is done. *)
StepEnds(r) ==
    /\ outcome' = Append(outcome, r)
    /\ IF step < NSteps THEN step' = step + 1 /\ pc' = "start"
                        ELSE pc' = "done" /\ UNCHANGED step

\* Mutant: a not-open reply counts as two polls.
NextPollTwice == polls' = polls + 2

\* load(): the next iteration of for i := 0; i < 60; i++.
NextPoll == polls' = polls + 1

\* fixedPattern begins: load() polls check_conn_open(symAgents ++ thAgents).
StartStep ==
    /\ pc = "start"
    /\ Issue("CONN_OPEN", Sym \o Th)
    /\ pc' = "check" /\ polls' = 0
    /\ UNCHANGED <<toCoord, step, outcome>>

AllOpen == \A i \in DOMAIN cmd.vals : cmd.vals[i].info # 0

(* check_conn_open returned: an error ends the step; all open starts the  *)
(* load; otherwise sleep and poll again, until the 60 polls are spent.    *)
AfterCheck ==
    /\ pc = "check" /\ Finished
    /\ \/ cmd.status = "err" /\ StepEnds("err")
          /\ UNCHANGED <<toAgent, cmd, nextId, polls, crashed>>
       \/ cmd.status = "ok" /\ AllOpen
          /\ Issue("START_LOAD", Sym \o Th) /\ pc' = "loadSym"
          /\ UNCHANGED <<step, polls, outcome>>
       \/ cmd.status = "ok" /\ ~AllOpen /\ polls + 1 < MaxPolls
          /\ NextPoll /\ Issue("CONN_OPEN", Sym \o Th)
          /\ UNCHANGED <<pc, step, outcome>>
       \/ cmd.status = "ok" /\ ~AllOpen /\ polls + 1 >= MaxPolls
          /\ StepEnds("err")
          /\ UNCHANGED <<toAgent, cmd, nextId, polls, crashed>>
    /\ UNCHANGED toCoord

(* The command of phase from returned: on error fixedPattern returns it;  *)
(* on success the next command of the sequence is sent.                   *)
Chain(from, kind, targets, to) ==
    /\ pc = from /\ Finished
    /\ \/ cmd.status = "err" /\ StepEnds("err")
          /\ UNCHANGED <<toAgent, cmd, nextId, crashed>>
       \/ cmd.status = "ok" /\ Issue(kind, targets) /\ pc' = to
          /\ UNCHANGED <<step, outcome>>
    /\ UNCHANGED <<toCoord, polls>>

AfterLoadSym  == Chain("loadSym", "START_LOAD", Lt, "loadLt")
AfterLoadLt   == Chain("loadLt", "START_MEASURE", Th \o Lt \o Sym, "measure")
AfterMeasure  == Chain("measure", "REPORT_TH", Th, "reportTh")
AfterReportTh == Chain("reportTh", "REPORT_LAT", Lt \o Sym, "reportLat")

(* reportLatency returned: aggregate, print, and return nil.              *)
AfterReportLat ==
    /\ pc = "reportLat" /\ Finished
    /\ StepEnds(IF cmd.status = "ok" THEN "nil" ELSE "err")
    /\ UNCHANGED <<toAgent, toCoord, cmd, nextId, polls, crashed>>

\* runExp has returned, or main has exited; agents may still answer.
Done == pc \in {"done", "exit0", "exit1", "sshStalled"} /\ UNCHANGED vars

Coordinator ==
    \/ Startup
    \/ /\ \/ StartStep \/ AfterCheck \/ AfterLoadSym \/ AfterLoadLt \/ AfterMeasure
          \/ AfterReportTh \/ AfterReportLat
       /\ UNCHANGED startVars
    \/ (CollectRead \/ CollectTimeout) /\ UNCHANGED driverVars

Next ==
    \/ Coordinator
    \/ \E a \in Agents : AgentServe(a) /\ UNCHANGED driverVars
    \/ \E a \in Agents : AgentCrash(a) /\ UNCHANGED driverVars
    \/ Done

(* The coordinator is one goroutine whose every read has a deadline and   *)
(* whose every sleep is bounded, so it is weakly fair.  Its one unbounded *)
(* wait, ssh.Dial, is the state sshStalled, not a step fairness forces.   *)
(* The agents are not assumed to answer in time.                          *)
Spec == Init /\ [][Next]_vars /\ WF_vars(Coordinator)

-----------------------------------------------------------------------------

TypeOK ==
    /\ pc \in {"config", "launch", "dial", "start", "check", "loadSym", "loadLt",
               "measure", "reportTh", "reportLat", "done", "exit0", "exit1",
               "sshStalled"}
    /\ ai \in 1..(NAgents + 1)
    /\ {printed, launched, dialed} \subseteq SUBSET Agents
    /\ step \in 1..NSteps
    /\ polls \in 0..(MaxPolls - 1)
    /\ outcome \in Seq({"nil", "err"}) /\ Len(outcome) <= NSteps
    /\ cmd.kind \in Kinds \cup {"none"}
    /\ cmd.status \in {"idle", "busy", "ok", "err"}
    /\ \A a \in Agents : \A i \in DOMAIN toCoord[a] : toCoord[a][i].id < nextId

(* Spec 8.2 and section 5: every reply a collect loop accepts is the      *)
(* answer of its agent to the request of this command -- never a reply    *)
(* left on the connection by an earlier command.                          *)
ReplyMatchesRequest ==
    \A i \in DOMAIN cmd.vals : cmd.vals[i].id = cmd.id

(* The refinement: the command in progress seen without its socket-level  *)
(* state (the index of the agent being read, and the replies accepted so  *)
(* far while it runs), and the id counter.                                 *)
AbstractCmd ==
    [kind |-> cmd.kind, id |-> cmd.id, targets |-> cmd.targets,
     vals |-> IF cmd.status = "busy" THEN << >> ELSE cmd.vals,
     status |-> cmd.status]

Atomic == INSTANCE AtomicCommand WITH acmd <- AbstractCmd, aid <- nextId,
                                      Agents <- Agents

(* broadcastMessage and the collect loops, with the agents' speed against *)
(* the deadlines, coalesced reads and replies left behind, implement       *)
(* atomic commands: every command returns, and a successful one returns   *)
(* each target's answer to this very request, in target order.            *)
AtomicSpec == Atomic!ASpec

(* The program ends unless an ssh handshake stalls, the one wait without *)
(* a bound: main exits on a failed key check, launch or dial, or after    *)
(* printing; otherwise the pattern returns after every load, as the       *)
(* polling loop is bounded, every read is bounded by its deadline         *)
(* whatever the agents do, and stepPattern goes on after an error.        *)
Termination ==
    <>(pc \in {"exit0", "exit1", "sshStalled"} \/ (pc = "done" /\ Len(outcome) = NSteps))
=============================================================================
