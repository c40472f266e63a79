--------------------------- MODULE Services_proofs ---------------------------
(***************************************************************************)
(* The parts of Zakros side by side (MCServices), for every instance.      *)
(*                                                                         *)
(* Whatever the other parts do, each part behaves as it does by itself: a  *)
(* step of the whole is a step of one part, and leaves the variables of    *)
(* the others alone.  So what was proved of each part by itself holds of   *)
(* the whole, which MCServices.cfg checks on a small instance.             *)
(***************************************************************************)
EXTENDS MCServices, TaskStore_proofs, Access_proofs, Deliveries_proofs, Worker_proofs,
        Iris_proofs

\* A step of the whole is a step of every part, or none.
LEMMA StepOfParts ==
  ASSUME [ServicesNext]_servicesVars
  PROVE  /\ [StoreNext]_tasks
         /\ [AccessNext]_accessVars
         /\ [DeliveriesNext]_deliveryVars
         /\ [AuthNext]_authVars
         /\ [WorkerNext]_workerVars
         /\ [Next]_vars
<1>1. CASE UNCHANGED servicesVars
  BY <1>1 DEF servicesVars
<1>2. CASE ServicesNext
  BY <1>2 DEF ServicesNext, TasksAct, AccessActs, DeliveriesAct, BrokerActs, WorkerActs, IrisActs
<1> QED
  BY <1>1, <1>2

LEMMA InitOfParts ==
  ServicesInit => /\ StoreInit /\ AccessInit /\ DeliveriesInit
                  /\ AuthInit /\ WorkerInit /\ Init
  BY DEF ServicesInit

LEMMA ServicesAct == ServicesSpec => ServicesInit /\ [][ServicesNext]_servicesVars
  BY PTL DEF ServicesSpec

(***************************************************************************)
(* Every part lives its own life among the others: the whole implements    *)
(* the specification of each.                                              *)
(***************************************************************************)
THEOREM PartsKeepToThemselves ==
  ServicesSpec => /\ StoreSpec /\ AccessSpec /\ DeliveriesSpec
                  /\ AuthSpec /\ WorkerSpec /\ Spec
<1>1. ServicesSpec => StoreSpec
  BY StepOfParts, InitOfParts, ServicesAct, PTL DEF StoreSpec
<1>2. ServicesSpec => AccessSpec
  BY StepOfParts, InitOfParts, ServicesAct, PTL DEF AccessSpec
<1>3. ServicesSpec => DeliveriesSpec
  BY StepOfParts, InitOfParts, ServicesAct, PTL DEF DeliveriesSpec
<1>4. ServicesSpec => AuthSpec
  BY StepOfParts, InitOfParts, ServicesAct, PTL DEF AuthSpec
<1>5. ServicesSpec => WorkerSpec
  BY StepOfParts, InitOfParts, ServicesAct, PTL DEF WorkerSpec
<1>6. ServicesSpec => Spec
  BY StepOfParts, InitOfParts, ServicesAct, PTL DEF Spec
<1> QED
  BY <1>1, <1>2, <1>3, <1>4, <1>5, <1>6

(***************************************************************************)
(* Every part keeps its state well formed and within its bounds.           *)
(***************************************************************************)
THEOREM ServicesTypeCorrect == ServicesSpec => []ServicesTypeOK
<1>1. StoreTypeOK /\ AccessTypeOK /\ DeliveriesTypeOK /\ AuthTypeOK /\ WorkerTypeOK => ServicesTypeOK
  BY DEF ServicesTypeOK
<1> QED
  BY <1>1, PartsKeepToThemselves, StoreTypeCorrect, AccessTypeCorrect, DeliveriesTypeCorrect,
     AuthTypeCorrect, WorkerTypeCorrect, PTL
=============================================================================
