---------------------------- MODULE MCApiProcess ----------------------------
(***************************************************************************)
(* Instances of ApiProcess for TLC.                                        *)
(***************************************************************************)
EXTENDS ApiProcess, SequencesExt

CONSTANTS m1, m2, m3, m4, s1, s2

\* Two modules with up to two commands each, a query, a job and an event handler.
SmallManifests ==
    {[id |-> i, commands |-> c, queries |-> q, jobs |-> j, event_handlers |-> e,
      routers |-> q, migrations |-> <<>>] :
        i \in ModuleIds, c \in SeqOf(Keys, 2), q \in SeqOf({m1}, 1), j \in SeqOf({m1}, 1),
        e \in SeqOf({m1}, 1)}
=============================================================================
