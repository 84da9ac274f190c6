------------------------- MODULE MCActionExecution -------------------------
(* A stateful pod, a deployment and a node, and plans that touch each of them *)
(* more than once.                                                            *)
EXTENDS ActionExecution

MCObjects == {<<"Pod", "app", "db-0">>, <<"Deployment", "app", "web">>, <<"Node", "", "n1">>}

Do(type, namespace, name, skip) ==
  [type |-> type, namespace |-> namespace, name |-> name,
   param |-> "absent", replicas |-> 0, skip |-> skip]
Restart(skip) == Do("restart-pod", "app", "db-0", skip)
Delete == Do("delete-pod", "app", "db-0", FALSE)
Scale(param, n) ==
  [Do("scale-deployment", "app", "web", FALSE) EXCEPT !.param = param, !.replicas = n]
Cordon == Do("cordon-node", "", "n1", FALSE)

MCPlans == {
  <<Restart(FALSE), Restart(FALSE)>>,
  <<Restart(TRUE), Delete, Restart(FALSE)>>,
  <<Scale("number", 3), Scale("absent", 0)>>,
  <<Scale("text", 0), Cordon, Scale("number", -1)>>,
  <<Do("restart-pod", "other", "db-0", FALSE), Cordon,
    Do("other", "app", "db-0", FALSE)>>,
  <<Do("delete-pod", "", "db-0", FALSE), Restart(FALSE)>> }

=============================================================================
