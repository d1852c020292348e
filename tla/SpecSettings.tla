---------------------------- MODULE SpecSettings ----------------------------
(***************************************************************************)
(* Where the settings of Health come from: what a document says of them,   *)
(* the defaults for what it leaves out (ApplyDefaults in                   *)
(* internal/config/types.go), and the rules that may refuse the document   *)
(* (Settings.validate in internal/config/parse.go).  A refused document is *)
(* skipped, so the manager stops reconciling with both probes green.  The  *)
(* log level goes the way of the prune mode.                               *)
(***************************************************************************)
EXTENDS Health

CONSTANTS Documents,        \* what a ConfigMap may say of the settings
          ShippedSettings   \* the Default... constants of types.go

LeftOut == 0
ModeLeftOut == ""
Modes == {"full", "deregister", "never"}

DocumentShapes == [mode : STRING, resync : Int, stall : Int, tokenGrace : Int,
                   tokenFail : Int, watchGrace : Int]

Or(value, default) == IF value = LeftOut THEN default ELSE value
Longer(c, d) == IF c >= d THEN c ELSE d

\* Mutant: the default of the liveness window is absolute.
AbsoluteFail(grace) == ShippedSettings.tokenFail
\* It follows a readiness window that is longer.
DefaultFail(grace) == Longer(ShippedSettings.tokenFail, grace)

ApplyDefaults(s) ==
    LET grace == Or(s.tokenGrace, ShippedSettings.tokenGrace)
    IN  [mode       |-> IF s.mode = ModeLeftOut THEN ShippedSettings.mode ELSE s.mode,
         resync     |-> Or(s.resync, ShippedSettings.resync),
         stall      |-> Or(s.stall, ShippedSettings.stall),
         tokenGrace |-> grace,
         tokenFail  |-> Or(s.tokenFail, DefaultFail(grace)),
         watchGrace |-> Or(s.watchGrace, ShippedSettings.watchGrace)]

ValidSettings(s) ==
    /\ s.mode \in Modes
    /\ s.resync > 0 /\ s.stall > 0 /\ s.tokenGrace > 0 /\ s.watchGrace > 0
    /\ s.tokenFail >= s.tokenGrace

Accepted(d) == ValidSettings(ApplyDefaults(d))

\* What Health looks at.
Times(s) == [resync |-> s.resync, stall |-> s.stall, tokenGrace |-> s.tokenGrace,
             tokenFail |-> s.tokenFail, watchGrace |-> s.watchGrace]

ASSUME ShippedAssumption ==
    /\ ShippedSettings \in DocumentShapes
    /\ ShippedSettings.mode \in Modes
    /\ Defaults = Times(ShippedSettings)
ASSUME DocumentAssumption ==
    /\ Documents \subseteq DocumentShapes
    /\ Settings = { Times(ApplyDefaults(d)) : d \in { e \in Documents : Accepted(e) } }

\* The documents that may be behind the settings in effect.
InEffect == { d \in Documents : Accepted(d) /\ Times(ApplyDefaults(d)) = settings }

\* Of a document in effect that leaves tokenFailTimeout out, tokenGracePeriod
\* can be moved to anything, above or below the shipped liveness window: the
\* edit is not refused, and the probes get settings they can work with.
GraceMovesFreely ==
    \A d \in InEffect, grace \in Durations :
        d.tokenFail = LeftOut =>
            LET edited == [d EXCEPT !.tokenGrace = grace]
            IN  Accepted(edited) /\ Validated(Times(ApplyDefaults(edited)))
=============================================================================
