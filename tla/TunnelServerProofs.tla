-------------------------- MODULE TunnelServerProofs --------------------------
(***************************************************************************)
(* The tunnel server never keeps a dead session: neither a port binding    *)
(* nor an entry of the client map outlives the session it points to,       *)
(* however many sessions of however many clients come, take over, displace *)
(* each other and leave.  And a session that was alone is reachable: no    *)
(* step of another client's session takes its entry or its ports away.     *)
(***************************************************************************)
EXTENDS TunnelServer, TLAPS

\* A bound port has a listener and is one of the ports its client maps.
BoundIsMapped ==
  \A p \in Ports :
    bound[p] # NoSession => p \in listening /\ p \in Mapped(bound[p])

\* A session binds and switches only the ports its client maps.
LeftIsMapped ==
  \A s \in Sessions : pc[s] \in {"binding", "switching"} => left[s] \subseteq Mapped(s)

TunnelInv == TypeOK /\ BoundIsMapped /\ LeftIsMapped /\ PortBindingHasOwner

-------------------------------------------------------------------------------
\* Every step of a session keeps the maps well typed.
LEMMA StepKeepsTypes ==
  ASSUME TypeOK, [Next]_vars
  PROVE  TypeOK'
<1> USE TunnelAssumption
<1> USE DEF TypeOK, SessionStates
<1>1. ASSUME NEW s \in Sessions, Connect(s) PROVE TypeOK'
  BY <1>1 DEF Connect, At
<1>2. ASSUME NEW s \in Sessions, Config(s) PROVE TypeOK'
  <2>1. CASE ConfigCheck(s)
    BY <2>1 DEF ConfigCheck, At
  <2>2. CASE ConfigDisplace(s)
    BY <2>2 DEF ConfigDisplace, At, remove_client
  <2>3. CASE ConfigAdd(s)
    BY <2>3 DEF ConfigAdd, At, add_client, Mapped
  <2>4. CASE ConfigBind(s)
    BY <2>4 DEF ConfigBind, bind
  <2>5. CASE ConfigRefused(s)
    BY <2>5 DEF ConfigRefused, At, remove_client
  <2>6. CASE ConfigDone(s)
    BY <2>6 DEF ConfigDone, At
  <2> QED BY <1>2, <2>1, <2>2, <2>3, <2>4, <2>5, <2>6 DEF Config
<1>3. ASSUME NEW s \in Sessions, Takeover(s) PROVE TypeOK'
  <2>1. CASE TakeoverBegin(s)
    BY <2>1 DEF TakeoverBegin, At, Mapped
  <2>2. CASE TakeoverSwitch(s)
    BY <2>2 DEF TakeoverSwitch, bind
  <2>3. CASE TakeoverOutcome(s)
    BY <2>3 DEF TakeoverOutcome, At
  <2>4. CASE TakeoverUpdate(s)
    BY <2>4 DEF TakeoverUpdate, At, TellOld
  <2>5. CASE TakeoverCreate(s)
    BY <2>5 DEF TakeoverCreate, At, add_client, TellOld
  <2> QED BY <1>3, <2>1, <2>2, <2>3, <2>4, <2>5 DEF Takeover
<1>4. ASSUME NEW s \in Sessions, SessionEnds(s) PROVE TypeOK'
  BY <1>4 DEF SessionEnds, At
<1>5. ASSUME NEW s \in Sessions, Leave(s) PROVE TypeOK'
  <2>1. CASE LeaveRemove(s)
    BY <2>1 DEF LeaveRemove, At, remove_client
  <2>2. CASE LeaveUnbind(s)
    BY <2>2 DEF LeaveUnbind, unbind
  <2>3. CASE LeaveDone(s)
    BY <2>3 DEF LeaveDone, At
  <2> QED BY <1>5, <2>1, <2>2, <2>3 DEF Leave
<1>6. CASE UNCHANGED vars
  BY <1>6 DEF vars
<1> QED BY <1>1, <1>2, <1>3, <1>4, <1>5, <1>6 DEF Next

-------------------------------------------------------------------------------
(* Port bindings                                                           *)

\* A step of session s that binds nothing: the bindings of the others are kept,
\* and those of s as far as its cleanup still covers them.
LEMMA NothingBound ==
  ASSUME TunnelInv, NEW s \in Sessions,
         UNCHANGED <<listening, bound>>,
         \A t \in Sessions \ {s} : pc'[t] = pc[t] /\ left'[t] = left[t],
         pc'[s] \in {"binding", "switching"} => left'[s] \subseteq Mapped(s),
         \A p \in Ports : bound[p] = s /\ AlwaysListens(s) => WillUnbind(s, p)'
  PROVE  BoundIsMapped' /\ LeftIsMapped' /\ PortBindingHasOwner'
<1> USE DEF TunnelInv
<1>1. BoundIsMapped'
  BY DEF BoundIsMapped, Mapped
<1>2. LeftIsMapped'
  BY DEF LeftIsMapped, Mapped
<1>3. PortBindingHasOwner'
  <2> SUFFICES ASSUME NEW p \in Ports, bound[p] # NoSession, AlwaysListens(bound[p])
               PROVE  WillUnbind(bound[p], p)'
    BY DEF PortBindingHasOwner, AlwaysListens, Mapped
  <2>1. WillUnbind(bound[p], p) /\ bound[p] \in Sessions
    BY DEF PortBindingHasOwner, TypeOK
  <2>2. CASE bound[p] = s
    BY <2>2
  <2>3. CASE bound[p] # s
    BY <2>1, <2>3 DEF WillUnbind
  <2> QED BY <2>2, <2>3
<1> QED BY <1>1, <1>2, <1>3

\* One port of the ones it maps is bound to session s, which will unbind it.
LEMMA OnePortBound ==
  ASSUME TunnelInv, NEW s \in Sessions, NEW p \in left[s],
         pc[s] \in {"binding", "switching"},
         bound' = [bound EXCEPT ![p] = s],
         listening \subseteq listening', p \in listening',
         left' = [left EXCEPT ![s] = @ \ {p}],
         UNCHANGED pc
  PROVE  BoundIsMapped' /\ LeftIsMapped' /\ PortBindingHasOwner'
<1> USE DEF TunnelInv
<1>1. p \in Ports /\ p \in Mapped(s)
  BY DEF TypeOK, LeftIsMapped
<1>2. \A q \in Ports : bound'[q] = IF q = p THEN s ELSE bound[q]
  BY <1>1 DEF TypeOK
<1>3. BoundIsMapped'
  BY <1>1, <1>2 DEF BoundIsMapped, Mapped
<1>4. \A t \in Sessions : left'[t] \subseteq left[t]
  BY DEF TypeOK
<1>5. LeftIsMapped'
  BY <1>4 DEF LeftIsMapped, Mapped
<1>6. PortBindingHasOwner'
  <2>0. \A q \in Ports : bound'[q] \in Sessions \cup {NoSession}
    BY <1>2 DEF TypeOK
  <2> SUFFICES ASSUME NEW q \in Ports, NEW t \in Sessions, bound'[q] = t,
                      AlwaysListens(t)
               PROVE  WillUnbind(t, q)'
    BY <2>0 DEF PortBindingHasOwner, AlwaysListens, Mapped
  <2>1. CASE t = s
    BY <2>1 DEF WillUnbind
  <2>2. CASE t # s
    <3>1. bound[q] = t /\ t # NoSession
      BY <1>2, <2>2, TunnelAssumption
    <3>2. left'[t] = left[t]
      BY <2>2 DEF TypeOK
    <3>3. WillUnbind(t, q)
      BY <3>1 DEF PortBindingHasOwner
    <3> QED BY <3>2, <3>3 DEF WillUnbind
  <2> QED BY <2>1, <2>2
<1> QED BY <1>3, <1>5, <1>6

\* Every step keeps a cleanup ahead of every bound port.
LEMMA StepKeepsOwners ==
  ASSUME TunnelInv, [Next]_vars
  PROVE  BoundIsMapped' /\ LeftIsMapped' /\ PortBindingHasOwner'
<1> USE TunnelAssumption
<1> DEFINE Goal == BoundIsMapped' /\ LeftIsMapped' /\ PortBindingHasOwner'
<1>0. TypeOK
  BY DEF TunnelInv
<1>a. \A s \in Sessions, p \in Ports :
        bound[p] = s /\ AlwaysListens(s) => WillUnbind(s, p)
  BY DEF TunnelInv, PortBindingHasOwner
<1>1. ASSUME NEW s \in Sessions, Connect(s) PROVE Goal
  <2>1. \A t \in Sessions \ {s} : pc'[t] = pc[t]
    BY <1>0, <1>1 DEF Connect, At, TypeOK
  <2>2. pc[s] = "idle" /\ pc'[s] = "open" /\ UNCHANGED <<listening, bound, left>>
    BY <1>0, <1>1 DEF Connect, At, TypeOK
  <2> QED BY <1>a, <2>1, <2>2, NothingBound DEF WillUnbind
<1>2. ASSUME NEW s \in Sessions, Config(s) PROVE Goal
  <2>1. CASE ConfigCheck(s)
    <3>1. \A t \in Sessions \ {s} : pc'[t] = pc[t]
      BY <1>0, <2>1 DEF ConfigCheck, At, TypeOK
    <3>2. /\ pc[s] = "open" /\ pc'[s] \in {"displacing", "joining"}
          /\ UNCHANGED <<listening, bound, left>>
      BY <1>0, <2>1 DEF ConfigCheck, At, TypeOK
    <3> QED BY <1>a, <3>1, <3>2, NothingBound DEF WillUnbind
  <2>2. CASE ConfigDisplace(s)
    <3>1. \A t \in Sessions \ {s} : pc'[t] = pc[t]
      BY <1>0, <2>2 DEF ConfigDisplace, At, TypeOK
    <3>2. /\ pc[s] = "displacing" /\ pc'[s] = "joining"
          /\ UNCHANGED <<listening, bound, left>>
      BY <1>0, <2>2 DEF ConfigDisplace, At, TypeOK
    <3> QED BY <1>a, <3>1, <3>2, NothingBound DEF WillUnbind
  <2>3. CASE ConfigAdd(s)
    <3>1. \A t \in Sessions \ {s} : pc'[t] = pc[t] /\ left'[t] = left[t]
      BY <1>0, <2>3 DEF ConfigAdd, At, TypeOK
    <3>2. /\ pc'[s] = "binding" /\ left'[s] = Mapped(s)
          /\ UNCHANGED <<listening, bound>>
      BY <1>0, <2>3 DEF ConfigAdd, At, TypeOK
    <3> QED BY <3>1, <3>2, NothingBound DEF WillUnbind
  <2>4. CASE ConfigBind(s)
    <3>1. PICK p \in left[s] : /\ listening' = listening \cup {p}
                               /\ bound' = [bound EXCEPT ![p] = s]
                               /\ left' = [left EXCEPT ![s] = @ \ {p}]
      BY <2>4 DEF ConfigBind, bind
    <3>2. pc[s] = "binding" /\ UNCHANGED pc
      BY <2>4 DEF ConfigBind
    <3> QED BY <3>1, <3>2, OnePortBound
  <2>5. CASE ConfigRefused(s)
    <3>1. \A t \in Sessions \ {s} : pc'[t] = pc[t] /\ left'[t] = left[t]
      BY <1>0, <2>5 DEF ConfigRefused, At, TypeOK
    <3>2. /\ pc[s] = "binding" /\ pc'[s] = "unregistered"
          /\ UNCHANGED <<listening, bound>>
      BY <1>0, <2>5 DEF ConfigRefused, At, TypeOK
    <3>3. left[s] \subseteq Mapped(s)
      BY <3>2 DEF TunnelInv, LeftIsMapped
    <3>4. ~ AlwaysListens(s)
      BY <2>5, <3>3 DEF ConfigRefused, AlwaysListens
    <3> QED BY <3>1, <3>2, <3>4, NothingBound
  <2>6. CASE ConfigDone(s)
    <3>1. \A t \in Sessions \ {s} : pc'[t] = pc[t]
      BY <1>0, <2>6 DEF ConfigDone, At, TypeOK
    <3>2. pc'[s] = "served" /\ UNCHANGED <<listening, bound, left>>
      BY <1>0, <2>6 DEF ConfigDone, At, TypeOK
    <3> QED BY <3>1, <3>2, NothingBound DEF WillUnbind
  <2> QED BY <1>2, <2>1, <2>2, <2>3, <2>4, <2>5, <2>6 DEF Config
<1>3. ASSUME NEW s \in Sessions, Takeover(s) PROVE Goal
  <2>1. CASE TakeoverBegin(s)
    <3>1. \A t \in Sessions \ {s} : pc'[t] = pc[t] /\ left'[t] = left[t]
      BY <1>0, <2>1 DEF TakeoverBegin, At, TypeOK
    <3>2. /\ pc'[s] = "switching" /\ left'[s] = Mapped(s)
          /\ UNCHANGED <<listening, bound>>
      BY <1>0, <2>1 DEF TakeoverBegin, At, TypeOK
    <3> QED BY <3>1, <3>2, NothingBound DEF WillUnbind
  <2>2. CASE TakeoverSwitch(s)
    <3>1. PICK p \in left[s] :
            /\ IF p \in listening THEN bind(p, s) ELSE UNCHANGED bound
            /\ left' = [left EXCEPT ![s] = @ \ {p}]
      BY <2>2 DEF TakeoverSwitch
    <3>2. pc[s] = "switching" /\ UNCHANGED <<pc, listening>>
      BY <2>2 DEF TakeoverSwitch
    <3>3. CASE p \in listening
      BY <3>1, <3>2, <3>3, OnePortBound DEF bind
    <3>4. CASE p \notin listening
      <4>1. \A t \in Sessions \ {s} : pc'[t] = pc[t] /\ left'[t] = left[t]
        BY <1>0, <3>1, <3>2 DEF TypeOK
      <4>2. left'[s] \subseteq Mapped(s)
        BY <1>0, <3>1, <3>2 DEF TypeOK, TunnelInv, LeftIsMapped
      <4> QED BY <3>1, <3>2, <3>4, <4>1, <4>2, NothingBound DEF WillUnbind
    <3> QED BY <3>3, <3>4
  <2>3. CASE TakeoverOutcome(s)
    <3>1. \A t \in Sessions \ {s} : pc'[t] = pc[t]
      BY <1>0, <2>3 DEF TakeoverOutcome, At, TypeOK
    <3>2. /\ UNCHANGED <<listening, bound, left>>
          /\ \/ pc'[s] \in {"updating", "creating"}
             \/ pc'[s] = "unregistered" /\ Mapped(s) \cap listening = {}
      BY <1>0, <2>3 DEF TakeoverOutcome, At, TypeOK
    <3>3. CASE pc'[s] \in {"updating", "creating"}
      BY <3>1, <3>2, <3>3, NothingBound DEF WillUnbind
    <3>4. CASE pc'[s] = "unregistered" /\ Mapped(s) \cap listening = {}
      <4>1. \A p \in Ports : bound[p] # s
        BY <3>4, TunnelAssumption DEF TunnelInv, BoundIsMapped
      <4> QED BY <3>1, <3>2, <3>4, <4>1, NothingBound
    <3> QED BY <3>2, <3>3, <3>4
  <2>4. CASE TakeoverUpdate(s) \/ TakeoverCreate(s)
    <3>1. \A t \in Sessions \ {s} : pc'[t] = pc[t]
      BY <1>0, <2>4 DEF TakeoverUpdate, TakeoverCreate, At, TypeOK
    <3>2. pc'[s] = "served" /\ UNCHANGED <<listening, bound, left>>
      BY <1>0, <2>4 DEF TakeoverUpdate, TakeoverCreate, At, TypeOK
    <3> QED BY <3>1, <3>2, NothingBound DEF WillUnbind
  <2> QED BY <1>3, <2>1, <2>2, <2>3, <2>4 DEF Takeover
<1>4. ASSUME NEW s \in Sessions, SessionEnds(s) PROVE Goal
  <2>1. \A t \in Sessions \ {s} : pc'[t] = pc[t]
    BY <1>0, <1>4 DEF SessionEnds, At, TypeOK
  <2>2. /\ UNCHANGED <<listening, bound, left>>
        /\ \/ pc'[s] = "leaving"
           \/ pc[s] \in {"open", "unregistered"} /\ pc'[s] = "gone"
    BY <1>0, <1>4 DEF SessionEnds, At, TypeOK
  <2> QED BY <1>a, <2>1, <2>2, NothingBound DEF WillUnbind
<1>5. ASSUME NEW s \in Sessions, Leave(s) PROVE Goal
  <2>1. CASE LeaveRemove(s)
    <3>1. \A t \in Sessions \ {s} : pc'[t] = pc[t] /\ left'[t] = left[t]
      BY <1>0, <2>1 DEF LeaveRemove, At, TypeOK
    <3>2. /\ pc'[s] = "unbinding" /\ left'[s] = listening
          /\ UNCHANGED <<listening, bound>>
      BY <1>0, <2>1 DEF LeaveRemove, At, TypeOK
    <3>3. \A p \in Ports : bound[p] = s => p \in listening
      BY TunnelAssumption DEF TunnelInv, BoundIsMapped
    <3> QED BY <3>1, <3>2, <3>3, NothingBound DEF WillUnbind
  <2>2. CASE LeaveUnbind(s)
    <3>1. PICK p \in left[s] : /\ unbind(p, ClientOf[s])
                               /\ left' = [left EXCEPT ![s] = @ \ {p}]
      BY <2>2 DEF LeaveUnbind
    <3>2. pc[s] = "unbinding" /\ UNCHANGED <<pc, listening>>
      BY <2>2 DEF LeaveUnbind
    <3>3. \A q \in Ports : \/ bound'[q] = NoSession
                           \/ bound'[q] = bound[q] /\ (q = p => bound[q] # s)
      BY <1>0, <3>1 DEF unbind, TypeOK
    <3>4. \A t \in Sessions : left'[t] = IF t = s THEN left[s] \ {p} ELSE left[t]
      BY <1>0, <3>1 DEF TypeOK
    <3>5. BoundIsMapped'
      BY <3>2, <3>3 DEF TunnelInv, BoundIsMapped, Mapped
    <3>6. LeftIsMapped'
      BY <3>2, <3>4 DEF TunnelInv, LeftIsMapped, Mapped
    <3>7. PortBindingHasOwner'
      <4>0. \A q \in Ports : bound'[q] \in Sessions \cup {NoSession}
        BY <1>0, <3>3 DEF TypeOK
      <4> SUFFICES ASSUME NEW q \in Ports, NEW t \in Sessions, bound'[q] = t,
                          AlwaysListens(t)
                   PROVE  WillUnbind(t, q)'
        BY <4>0 DEF PortBindingHasOwner, AlwaysListens, Mapped
      <4>1. bound[q] = t /\ (q = p => t # s)
        BY <3>3, TunnelAssumption
      <4>2. WillUnbind(t, q)
        BY <1>a, <4>1
      <4> QED BY <3>2, <3>4, <4>1, <4>2 DEF WillUnbind
    <3> QED BY <3>5, <3>6, <3>7
  <2>3. CASE LeaveDone(s)
    <3>1. \A t \in Sessions \ {s} : pc'[t] = pc[t]
      BY <1>0, <2>3 DEF LeaveDone, At, TypeOK
    <3>2. /\ pc[s] = "unbinding" /\ left[s] = {} /\ pc'[s] = "gone"
          /\ UNCHANGED <<listening, bound, left>>
      BY <1>0, <2>3 DEF LeaveDone, At, TypeOK
    <3> QED BY <1>a, <3>1, <3>2, NothingBound DEF WillUnbind
  <2> QED BY <1>5, <2>1, <2>2, <2>3 DEF Leave
<1>6. CASE UNCHANGED vars
  BY <1>6 DEF vars, TunnelInv, BoundIsMapped, LeftIsMapped, PortBindingHasOwner,
     WillUnbind, AlwaysListens, Mapped
<1> QED BY <1>1, <1>2, <1>3, <1>4, <1>5, <1>6 DEF Next

\* For any sessions, clients and ports: a bound port is bound to a session whose
\* cleanup is still to come, if that session cannot be refused a port.
THEOREM PortBindingsOwned == Spec => []PortBindingHasOwner
<1>1. Init => TunnelInv
  BY TunnelAssumption DEF Init, TunnelInv, TypeOK, SessionStates, BoundIsMapped,
     LeftIsMapped, PortBindingHasOwner
<1>2. TunnelInv /\ [Next]_vars => TunnelInv'
  BY StepKeepsTypes, StepKeepsOwners DEF TunnelInv
<1>3. TunnelInv => PortBindingHasOwner
  BY DEF TunnelInv
<1> QED BY <1>1, <1>2, <1>3, PTL DEF Spec

-------------------------------------------------------------------------------
(* The client map                                                          *)

\* Every step keeps the sessions of the client map registered.
LEMMA StepKeepsClients ==
  ASSUME TypeOK, ClientEntryHasOwner, [Next]_vars
  PROVE  ClientEntryHasOwner'
<1> USE TunnelAssumption DEF TypeOK, ClientEntryHasOwner, has_client
<1>1. ASSUME NEW s \in Sessions, Connect(s) PROVE ClientEntryHasOwner'
  BY <1>1 DEF Connect, At
<1>2. ASSUME NEW s \in Sessions, Config(s) PROVE ClientEntryHasOwner'
  <2>1. CASE ConfigCheck(s)
    BY <2>1 DEF ConfigCheck, At
  <2>2. CASE ConfigDisplace(s)
    BY <2>2 DEF ConfigDisplace, At, remove_client
  <2>3. CASE ConfigAdd(s)
    BY <2>3 DEF ConfigAdd, At, add_client
  <2>4. CASE ConfigBind(s)
    BY <2>4 DEF ConfigBind
  <2>5. CASE ConfigRefused(s)
    BY <2>5 DEF ConfigRefused, At, remove_client
  <2>6. CASE ConfigDone(s)
    BY <2>6 DEF ConfigDone, At
  <2> QED BY <1>2, <2>1, <2>2, <2>3, <2>4, <2>5, <2>6 DEF Config
<1>3. ASSUME NEW s \in Sessions, Takeover(s) PROVE ClientEntryHasOwner'
  <2>1. CASE TakeoverBegin(s)
    BY <2>1 DEF TakeoverBegin, At
  <2>2. CASE TakeoverSwitch(s)
    BY <2>2 DEF TakeoverSwitch
  <2>3. CASE TakeoverOutcome(s)
    BY <2>3 DEF TakeoverOutcome, At
  <2>4. CASE TakeoverUpdate(s)
    BY <2>4 DEF TakeoverUpdate, At
  <2>5. CASE TakeoverCreate(s)
    BY <2>5 DEF TakeoverCreate, At, add_client
  <2> QED BY <1>3, <2>1, <2>2, <2>3, <2>4, <2>5 DEF Takeover
<1>4. ASSUME NEW s \in Sessions, SessionEnds(s) PROVE ClientEntryHasOwner'
  BY <1>4 DEF SessionEnds, At
<1>5. ASSUME NEW s \in Sessions, Leave(s) PROVE ClientEntryHasOwner'
  <2>1. CASE LeaveRemove(s)
    BY <2>1 DEF LeaveRemove, At, remove_client
  <2>2. CASE LeaveUnbind(s)
    BY <2>2 DEF LeaveUnbind
  <2>3. CASE LeaveDone(s)
    BY <2>3 DEF LeaveDone, At
  <2> QED BY <1>5, <2>1, <2>2, <2>3 DEF Leave
<1>6. CASE UNCHANGED vars
  BY <1>6 DEF vars
<1> QED BY <1>1, <1>2, <1>3, <1>4, <1>5, <1>6 DEF Next

\* For any sessions, clients and ports: an entry of the client map is a session
\* of that client, registered and not yet cleaned up.
THEOREM ClientEntriesOwned == Spec => []ClientEntryHasOwner
<1>1. Init => TypeOK /\ ClientEntryHasOwner
  BY TunnelAssumption DEF Init, TypeOK, SessionStates, ClientEntryHasOwner,
     has_client
<1>2. TypeOK /\ ClientEntryHasOwner /\ [Next]_vars => (TypeOK /\ ClientEntryHasOwner)'
  BY StepKeepsTypes, StepKeepsClients
<1> QED BY <1>1, <1>2, PTL DEF Spec

-------------------------------------------------------------------------------
(* A session that was alone                                                *)

\* The session is connected.
Live(s) == pc[s] \notin {"idle", "gone"}

\* Of two sessions that one client has at a time, both have met another one.
OverlapIsMet ==
  \A s, t \in Sessions :
    s # t /\ ClientOf[s] = ClientOf[t] /\ Live(s) /\ Live(t) => s \in met

\* What a session that met no other one of its client has: its entry as long as
\* it is registered, something to update if it found something, and the ports
\* it has come to, if no other client maps them.
Reachable(s) ==
  /\ pc[s] \in {"binding", "served"} => clients[ClientOf[s]] = s
  /\ pc[s] = "updating" => has_client(ClientOf[s])
  /\ pc[s] \in {"updating", "creating", "served"} => left[s] = {}
  /\ pc[s] \in {"binding", "switching", "updating", "creating", "served"} =>
       \A p \in (Mapped(s) \cap listening) \ left[s] :
         bound[p] = s \/ Contested(p, ClientOf[s])

SoloInv == OverlapIsMet /\ \A s \in Sessions \ met : Reachable(s)

\* A step of the session after it connected.
SessionStep(s) == Config(s) \/ Takeover(s) \/ SessionEnds(s) \/ Leave(s)

\* A step of session s leaves the other sessions where they are.
LEMMA OthersStay ==
  ASSUME TypeOK, NEW s \in Sessions, SessionStep(s)
  PROVE  /\ Live(s) /\ met' = met
         /\ \A t \in Sessions \ {s} : pc'[t] = pc[t] /\ left'[t] = left[t]
<1> DEFINE Goal == /\ Live(s) /\ met' = met
                   /\ \A t \in Sessions \ {s} : pc'[t] = pc[t] /\ left'[t] = left[t]
<1> USE DEF TypeOK, Live
<1>1. CASE Config(s)
  <2>1. CASE ConfigCheck(s) \/ ConfigDisplace(s) \/ ConfigDone(s)
    BY <2>1 DEF ConfigCheck, ConfigDisplace, ConfigDone, At
  <2>2. CASE ConfigAdd(s) \/ ConfigRefused(s)
    BY <2>2 DEF ConfigAdd, ConfigRefused, At
  <2>3. CASE ConfigBind(s)
    BY <2>3 DEF ConfigBind
  <2> QED BY <1>1, <2>1, <2>2, <2>3 DEF Config
<1>2. CASE Takeover(s)
  <2>1. CASE TakeoverBegin(s) \/ TakeoverOutcome(s)
    BY <2>1 DEF TakeoverBegin, TakeoverOutcome, At
  <2>2. CASE TakeoverSwitch(s)
    BY <2>2 DEF TakeoverSwitch
  <2>3. CASE TakeoverUpdate(s) \/ TakeoverCreate(s)
    BY <2>3 DEF TakeoverUpdate, TakeoverCreate, At
  <2> QED BY <1>2, <2>1, <2>2, <2>3 DEF Takeover
<1>3. CASE SessionEnds(s)
  BY <1>3 DEF SessionEnds, At
<1>4. CASE Leave(s)
  BY <1>4 DEF Leave, LeaveRemove, LeaveUnbind, LeaveDone, At
<1> QED BY <1>1, <1>2, <1>3, <1>4 DEF SessionStep

\* A step of session s changes only the entry of its client, and among the ports
\* only those its client maps, or those that another session of it had.
LEMMA OwnThingsChange ==
  ASSUME TypeOK, LeftIsMapped, NEW s \in Sessions, SessionStep(s)
  PROVE  /\ \A c \in Clients \ {ClientOf[s]} : clients'[c] = clients[c]
         /\ \A p \in Ports \ Mapped(s) :
              /\ p \in listening' <=> p \in listening
              /\ \/ bound'[p] = bound[p]
                 \/ bound[p] # NoSession /\ ClientOf[bound[p]] = ClientOf[s]
<1> USE TunnelAssumption DEF TypeOK
<1>1. CASE Config(s)
  <2>1. CASE ConfigCheck(s) \/ ConfigDone(s)
    BY <2>1 DEF ConfigCheck, ConfigDone
  <2>2. CASE ConfigDisplace(s) \/ ConfigRefused(s)
    BY <2>2 DEF ConfigDisplace, ConfigRefused, remove_client
  <2>3. CASE ConfigAdd(s)
    BY <2>3 DEF ConfigAdd, add_client
  <2>4. CASE ConfigBind(s)
    BY <2>4 DEF ConfigBind, bind, LeftIsMapped
  <2> QED BY <1>1, <2>1, <2>2, <2>3, <2>4 DEF Config
<1>2. CASE Takeover(s)
  <2>1. CASE TakeoverBegin(s) \/ TakeoverOutcome(s)
    BY <2>1 DEF TakeoverBegin, TakeoverOutcome
  <2>2. CASE TakeoverSwitch(s)
    BY <2>2 DEF TakeoverSwitch, bind, LeftIsMapped
  <2>3. CASE TakeoverUpdate(s)
    BY <2>3 DEF TakeoverUpdate
  <2>4. CASE TakeoverCreate(s)
    BY <2>4 DEF TakeoverCreate, add_client
  <2> QED BY <1>2, <2>1, <2>2, <2>3, <2>4 DEF Takeover
<1>3. CASE SessionEnds(s)
  BY <1>3 DEF SessionEnds
<1>4. CASE Leave(s)
  <2>1. CASE LeaveRemove(s)
    BY <2>1 DEF LeaveRemove, remove_client
  <2>2. CASE LeaveUnbind(s)
    BY <2>2 DEF LeaveUnbind, unbind
  <2>3. CASE LeaveDone(s)
    BY <2>3 DEF LeaveDone
  <2> QED BY <1>4, <2>1, <2>2, <2>3 DEF Leave
<1> QED BY <1>1, <1>2, <1>3, <1>4 DEF SessionStep

\* A step of another client's session leaves a session as reachable as it was.
LEMMA OthersReachable ==
  ASSUME TypeOK, LeftIsMapped, NEW s \in Sessions, SessionStep(s),
         NEW t \in Sessions \ {s}, ClientOf[t] # ClientOf[s], Reachable(t)
  PROVE  Reachable(t)'
<1> USE TunnelAssumption
<1>1. pc'[t] = pc[t] /\ left'[t] = left[t]
  BY OthersStay
<1>2. clients'[ClientOf[t]] = clients[ClientOf[t]]
  BY OwnThingsChange
<1>3. ASSUME NEW p \in Mapped(t) \cap listening', p \notin left[t],
             bound[p] = t \/ Contested(p, ClientOf[t]) \/ p \notin listening
      PROVE  bound'[p] = t \/ Contested(p, ClientOf[t])
  <2>0. p \in Ports
    BY DEF Mapped
  <2>1. CASE p \in Mapped(s)
    BY <2>1 DEF Contested, Mapped
  <2>2. CASE p \notin Mapped(s)
    BY <1>3, <2>0, <2>2, OwnThingsChange
  <2> QED BY <2>1, <2>2
<1> QED BY <1>1, <1>2, <1>3 DEF Reachable, has_client, Mapped, Contested

\* The steps of a session that met no other one keep it reachable.
LEMMA StaysReachable ==
  ASSUME TypeOK, LeftIsMapped, NEW s \in Sessions, SessionStep(s), Reachable(s)
  PROVE  Reachable(s)'
<1> USE TunnelAssumption DEF TypeOK, Reachable
<1>1. CASE Config(s)
  <2>1. CASE ConfigCheck(s)
    BY <2>1 DEF ConfigCheck, At
  <2>2. CASE ConfigDisplace(s)
    BY <2>2 DEF ConfigDisplace, At
  <2>3. CASE ConfigAdd(s)
    BY <2>3 DEF ConfigAdd, At, add_client, Mapped
  <2>4. CASE ConfigBind(s)
    BY <2>4 DEF ConfigBind, bind, Mapped, Contested
  <2>5. CASE ConfigRefused(s)
    BY <2>5 DEF ConfigRefused, At
  <2>6. CASE ConfigDone(s)
    BY <2>6 DEF ConfigDone, At, Mapped, Contested
  <2> QED BY <1>1, <2>1, <2>2, <2>3, <2>4, <2>5, <2>6 DEF Config
<1>2. CASE Takeover(s)
  <2>1. CASE TakeoverBegin(s)
    BY <2>1 DEF TakeoverBegin, At, Mapped
  <2>2. CASE TakeoverSwitch(s)
    BY <2>2 DEF TakeoverSwitch, bind, Mapped, Contested
  <2>3. CASE TakeoverOutcome(s)
    BY <2>3 DEF TakeoverOutcome, At, Mapped, Contested, has_client
  <2>4. CASE TakeoverUpdate(s)
    BY <2>4 DEF TakeoverUpdate, At, Mapped, Contested, has_client
  <2>5. CASE TakeoverCreate(s)
    BY <2>5 DEF TakeoverCreate, At, Mapped, Contested, add_client
  <2> QED BY <1>2, <2>1, <2>2, <2>3, <2>4, <2>5 DEF Takeover
<1>3. CASE SessionEnds(s)
  BY <1>3 DEF SessionEnds, At
<1>4. CASE Leave(s)
  BY <1>4 DEF Leave, LeaveRemove, LeaveUnbind, LeaveDone, At
<1> QED BY <1>1, <1>2, <1>3, <1>4 DEF SessionStep

\* Every step keeps the sessions that met no other one reachable.
LEMMA SoloStep ==
  ASSUME TypeOK, LeftIsMapped, SoloInv, [Next]_vars
  PROVE  SoloInv'
<1> USE TunnelAssumption
<1>1. ASSUME NEW s \in Sessions, Connect(s) PROVE SoloInv'
  <2>1. /\ pc[s] = "idle" /\ pc'[s] = "open" /\ met \subseteq met'
        /\ UNCHANGED <<clients, listening, bound, left>>
        /\ \A t \in Sessions \ {s} : pc'[t] = pc[t]
    BY <1>1 DEF Connect, At, TypeOK
  <2>2. \A t \in Sessions \ {s} :
          ClientOf[t] = ClientOf[s] /\ Live(t) => t \in met' /\ s \in met'
    BY <1>1 DEF Connect, Live
  <2>3. OverlapIsMet'
    BY <2>1, <2>2 DEF SoloInv, OverlapIsMet, Live
  <2>4. ASSUME NEW t \in Sessions \ met' PROVE Reachable(t)'
    <3>1. CASE t = s
      BY <2>1, <3>1 DEF Reachable
    <3>2. CASE t # s
      BY <2>1, <3>2 DEF SoloInv, Reachable, Mapped, Contested, has_client
    <3> QED BY <3>1, <3>2
  <2> QED BY <2>3, <2>4 DEF SoloInv
<1>2. ASSUME NEW s \in Sessions, SessionStep(s) PROVE SoloInv'
  <2>1. /\ Live(s) /\ met' = met
        /\ \A t \in Sessions \ {s} : pc'[t] = pc[t]
    BY <1>2, OthersStay
  <2>2. OverlapIsMet'
    BY <2>1 DEF SoloInv, OverlapIsMet, Live
  <2>3. ASSUME NEW t \in Sessions \ met' PROVE Reachable(t)'
    <3>1. t \notin met /\ Reachable(t)
      BY <2>1 DEF SoloInv
    <3>2. CASE t = s
      BY <1>2, <3>1, <3>2, StaysReachable
    <3>3. CASE t # s /\ ClientOf[t] # ClientOf[s]
      BY <1>2, <3>1, <3>3, OthersReachable
    <3>4. CASE t # s /\ ClientOf[t] = ClientOf[s]
      <4>1. pc'[t] \in {"idle", "gone"}
        BY <2>1, <3>1, <3>4 DEF SoloInv, OverlapIsMet, Live
      <4> QED BY <4>1 DEF Reachable
    <3> QED BY <3>2, <3>3, <3>4
  <2> QED BY <2>2, <2>3 DEF SoloInv
<1>3. CASE UNCHANGED vars
  BY <1>3 DEF vars, SoloInv, OverlapIsMet, Reachable, Live, Mapped, Contested,
     has_client
<1> QED BY <1>1, <1>2, <1>3 DEF Next, SessionStep

\* The maps and program counters of the server keep their types.
THEOREM TunnelTyped == Spec => []TypeOK
<1>1. Init => TypeOK
  BY TunnelAssumption DEF Init, TypeOK, SessionStates
<1>2. TypeOK /\ [Next]_vars => TypeOK'
  BY StepKeepsTypes
<1> QED BY <1>1, <1>2, PTL DEF Spec

\* However the sessions of all clients come and go, one that never overlapped
\* with another of its client has its entry in the client map and every port it
\* mapped that has a listener and that no other client maps.
THEOREM SoloReachable == Spec => []SoloSessionIsReachable
<1>1. Init => TunnelInv /\ SoloInv
  BY TunnelAssumption DEF Init, TunnelInv, TypeOK, SessionStates, BoundIsMapped,
     LeftIsMapped, PortBindingHasOwner, SoloInv, OverlapIsMet, Reachable, Live
<1>2. TunnelInv /\ SoloInv /\ [Next]_vars => (TunnelInv /\ SoloInv)'
  BY StepKeepsTypes, StepKeepsOwners, SoloStep DEF TunnelInv
<1>3. SoloInv => SoloSessionIsReachable
  BY DEF SoloInv, Reachable, SoloSessionIsReachable
<1> QED BY <1>1, <1>2, <1>3, PTL DEF Spec
===============================================================================
