---------------------------- MODULE MCAppLifecycle ----------------------------
(* Small instances of AppLifecycle. *)
EXTENDS AppLifecycle

\* The second name continues the first one.
Continues == [a \in App |-> IF a = "web" THEN {"web-admin"} \cap App ELSE {}]

\* An app is created with the default choice of environments, and is one of: of several
\* charts, delivered directly, with a validator; edits combine them.
DefaultChoices ==
    {s \in Specs : /\ s.deploy = [e \in Env |-> "default"] /\ s.validator \in {NoEnv, 2}
                   /\ s.composed => ~s.direct /\ s.validator = NoEnv
                   /\ s.direct => s.validator = NoEnv}
=============================================================================
