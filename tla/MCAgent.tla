------------------------------- MODULE MCAgent -------------------------------
(* Instances for TLC of what works beside the deploy engine: the strategies,  *)
(* the log stream, the NFA supervisor and the log reporter.  They share no    *)
(* state: a behaviour of the run looks at one of them, the one focus names.   *)
EXTENDS Strategies, LogStream, NfaSupervisor, LogReporter

CONSTANTS d1, d2, r1, r2, w1, w2, Foci

Pair(a, b) == [d \in {d1, d2} |-> IF d = d1 THEN a ELSE b]

\* Two swaps at once, a build of the image that is being swapped in, two builds
\* of one image, and strategies that have Docker to themselves.
AllPairs == {Pair("docker_compose", "docker_build"), Pair("docker_compose", "docker_compose"),
             Pair("docker_build", "docker_build"),
             Pair("docker_compose", "xiaojincut"), Pair("script", "docker_build")}

ComposePair == {Pair("docker_compose", "docker_compose")}

OwnTag == [d \in {d1, d2} |-> "app"]
TwoTags == Pair("app", "api")
OwnName == [d \in {d1, d2} |-> d]
NoTag == [d \in {d1, d2} |-> None]

West == -4

VARIABLE focus

vars == <<strategyVars, logVars, nfaVars, reporterVars, focus>>

\* What a deployment that has Docker to itself may find: somebody else's pushes,
\* an old canary, or any image in the registry.
Alone == focus = "strategies" /\ \E d \in Deploys : strategy[d] \in {"script", "xiaojincut"}
Known == [t \in Tags |-> OldImage]
Swaps == \E d \in Deploys : strategy[d] = "docker_compose"

Init ==
  /\ StrategiesInit /\ LogInit /\ NfaInit /\ ReporterInit /\ focus \in Foci
  /\ focus # "strategies" => strategy = CHOOSE s \in Strategies : TRUE
  /\ local = IF Swaps THEN [t \in Tags |-> None] ELSE Known
  /\ published = IF Alone THEN {} ELSE Tags
  /\ leftover # "none" => Alone /\ Swaps /\ registry = Known
  /\ registry # Known => Alone /\ Swaps
  /\ auto => focus = "nfa"

\* A step of the part that has the focus.
OfStrategies(A) == focus = "strategies" /\ A /\ UNCHANGED <<logVars, nfaVars, reporterVars, focus>>
OfLogs(A) == focus = "logs" /\ A /\ UNCHANGED <<strategyVars, nfaVars, reporterVars, focus>>
OfNfa(A) == focus = "nfa" /\ A /\ UNCHANGED <<strategyVars, logVars, reporterVars, focus>>
OfReporter(A) == focus = "reporter" /\ A /\ UNCHANGED <<strategyVars, logVars, nfaVars, focus>>

Next ==
  \/ OfStrategies(StrategiesNext)
  \/ OfLogs(LogNext)
  \/ OfNfa(NfaNext)
  \/ OfReporter(ReporterNext)

Spec == Init /\ [][Next]_vars

\* What is spawned is polled, commands end or are killed, calls to the Deploy
\* Center time out, and a killed process dies.
FairSpec ==
  /\ Spec
  /\ \A d \in Deploys : WF_vars(OfStrategies(AgentStep(d)))
  /\ WF_vars(OfLogs(LogTaskStep))
  /\ \A r \in Readers : WF_vars(OfLogs(StreamStep(r)))
  /\ WF_vars(OfNfa(SuperviseStep))
  /\ \A t \in Callers : WF_vars(OfNfa(TaskStep(t)))
  /\ WF_vars(OfNfa(\E p \in killed : KilledDies(p)))
===============================================================================
