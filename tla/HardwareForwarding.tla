------------------------- MODULE HardwareForwarding -------------------------
(***************************************************************************)
(* What the offload driver promises to the flow table that calls it, with  *)
(* no slot, register or device in sight: the hardware may forward a flow   *)
(* only to that flow's own next hop, it starts doing so while the flow is  *)
(* being added, and it has stopped before the removal is reported done.    *)
(***************************************************************************)

CONSTANTS
  Flow,     (* one member per direction of an offloaded connection         *)
  Target    (* Target[f]: the next hop packets of flow f have to leave by  *)

VARIABLES
  phase,    (* where the flow table is with each flow                      *)
  fwd       (* fwd[f]: the next hops the hardware may send f's packets to  *)

absVars == <<phase, fwd>>

AbsInit ==
  /\ phase = [f \in Flow |-> "closed"]
  /\ fwd = [f \in Flow |-> {}]

Move(f, from, to) ==
  /\ phase[f] = from
  /\ phase' = [phase EXCEPT ![f] = to]
  /\ UNCHANGED fwd

Install(f) ==
  /\ phase[f] = "adding"
  /\ fwd' = [fwd EXCEPT ![f] = {Target[f]}]
  /\ UNCHANGED phase

Remove(f) ==
  /\ phase[f] = "deleting"
  /\ fwd' = [fwd EXCEPT ![f] = {}]
  /\ UNCHANGED phase

StartOpen(f)  == Move(f, "closed", "adding")
Opened(f)     == Move(f, "adding", "open")
StartClose(f) == Move(f, "open", "deleting")
Closed(f)     == fwd[f] = {} /\ Move(f, "deleting", "closed")

AbsNext ==
  \E f \in Flow : \/ StartOpen(f)  \/ Install(f) \/ Opened(f)
                  \/ StartClose(f) \/ Remove(f)  \/ Closed(f)

AbsFairness ==
  \A f \in Flow : /\ WF_absVars(Opened(f))
                  /\ WF_absVars(Remove(f))
                  /\ WF_absVars(Closed(f))

AbsSpec == AbsInit /\ [][AbsNext]_absVars /\ AbsFairness
=============================================================================
