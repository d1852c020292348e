------------------------------ MODULE MCHealth ------------------------------
(***************************************************************************)
(* Documents for TLC, with their times in units of the shortest window.    *)
(***************************************************************************)
EXTENDS SpecSettings

Says(mode, resync, stall, tokenGrace, tokenFail, watchGrace) ==
    [mode |-> mode, resync |-> resync, stall |-> stall, tokenGrace |-> tokenGrace,
     tokenFail |-> tokenFail, watchGrace |-> watchGrace]
InForce(documents) == { Times(ApplyDefaults(d)) : d \in { e \in documents : Accepted(e) } }

McShipped == Says("full", 2, 1, 2, 2, 2)
McDefaults == Times(McShipped)

\* One that says nothing, one with longer windows than the defaults, a watch
\* grace beyond the retry cycle among them, one with shorter, and two that are
\* refused.
McDocuments ==
    { Says("", 0, 0, 0, 0, 0),
      Says("never", 1, 3, 0, 3, 3),
      Says("full", 0, 0, 1, 1, 1),
      Says("full", 0, 0, 3, 2, 0),
      Says("", -1, 0, 0, 0, 0) }
McSettings == InForce(McDocuments)

\* A watch grace shorter than the interval at which client-go retries.
ShortDocuments == {Says("", 1, 1, 1, 1, 1)}
ShortSettings == InForce(ShortDocuments)
=============================================================================
