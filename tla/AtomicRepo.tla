----------------------------- MODULE AtomicRepo -----------------------------
(***************************************************************************)
(* What the GitOps repository promises to those who publish to it: one     *)
(* commit is one whole publication, which writes and removes the files it  *)
(* was asked to, keeps the image tag that is deployed, and touches nothing *)
(* else; or it is a promotion by Kargo, which changes image tags.          *)
(***************************************************************************)
CONSTANTS
    Files,       \* of the repository
    Versions,    \* what a file may be rendered from
    Absent,      \* the version of a file that is not there
    Tags,        \* image tags
    Seed,        \* the tag of a file that is written for the first time
    Jobs         \* what may be published: functions from files to versions

VARIABLE content    \* of the branch

Contents == [Files -> [version : Versions, tag : Tags]]

Published(job) ==
    [f \in Files |->
        IF f \notin DOMAIN job THEN content[f]
        ELSE [version |-> job[f],
              tag     |-> IF Absent \in {job[f], content[f].version} THEN Seed
                          ELSE content[f].tag]]

Promoted(S, t) ==
    [f \in Files |-> IF f \in S /\ content[f].version # Absent
                     THEN [content[f] EXCEPT !.tag = t] ELSE content[f]]

Init == content \in Contents

Publish == \E job \in Jobs : content' = Published(job)
Promote == \E S \in SUBSET Files, t \in Tags : content' = Promoted(S, t)

Spec == Init /\ [][Publish \/ Promote]_content

=============================================================================
