----------------------------- MODULE MCServices -----------------------------
(***************************************************************************)
(* The parts of Zakros that do not share state, side by side on small      *)
(* instances: the task registry under arbitrary clients, the identity      *)
(* registry under chat commands, the webhook verifiers, the replay store   *)
(* of the brokers, the pods of one task, and Iris with its inbox.          *)
(* Initially one of them is chosen, and only it acts: to interleave parts  *)
(* that share nothing would only multiply their states, and every property *)
(* speaks of one.                                                          *)
(***************************************************************************)
EXTENDS TaskStore, Access, Deliveries, Worker, Iris, TLC

ProjectEndpoints == {<<"github", "clone">>, <<"apollo", "messages">>}

VARIABLE part   \* the part that acts

Parts == {"tasks", "access", "deliveries", "broker", "worker", "iris"}

servicesVars ==
  <<part, tasks, accessVars, deliveryVars, authVars, workerVars, vars>>

\* Of a part that does not act one initial state is enough.
OneOf ==
  /\ part # "broker" => expires = [j \in Jtis |-> 1]
  /\ part # "deliveries" => /\ backend = "postgres"
                            /\ stamp = [r \in Slack |-> 0]
                            /\ event = [d \in Github |-> "ignored"]

ServicesInit ==
  /\ part \in Parts
  /\ StoreInit /\ AccessInit /\ DeliveriesInit /\ AuthInit /\ WorkerInit /\ Init
  /\ OneOf

TasksAct      == part = "tasks"      /\ StoreNext      /\ UNCHANGED <<part, accessVars, deliveryVars, authVars, workerVars, vars>>
AccessActs    == part = "access"     /\ AccessNext     /\ UNCHANGED <<part, tasks, deliveryVars, authVars, workerVars, vars>>
DeliveriesAct == part = "deliveries" /\ DeliveriesNext /\ UNCHANGED <<part, tasks, accessVars, authVars, workerVars, vars>>
BrokerActs    == part = "broker"     /\ AuthNext       /\ UNCHANGED <<part, tasks, accessVars, deliveryVars, workerVars, vars>>
WorkerActs    == part = "worker"     /\ WorkerNext     /\ UNCHANGED <<part, tasks, accessVars, deliveryVars, authVars, vars>>
IrisActs      == part = "iris"       /\ Next           /\ UNCHANGED <<part, tasks, accessVars, deliveryVars, authVars, workerVars>>

ServicesNext ==
  TasksAct \/ AccessActs \/ DeliveriesAct \/ BrokerActs \/ WorkerActs \/ IrisActs

\* The fairness of Iris, as in its FairSpec.
ServicesSpec ==
  /\ ServicesInit
  /\ [][ServicesNext]_servicesVars
  /\ WF_vars(IrisStep /\ IrisActs)

(***************************************************************************)
(* Every part keeps its state well-formed, and within its bounds.          *)
(***************************************************************************)
ServicesTypeOK ==
  StoreTypeOK /\ AccessTypeOK /\ DeliveriesTypeOK /\ AuthTypeOK /\ WorkerTypeOK
=============================================================================
