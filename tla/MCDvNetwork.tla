---------------------------- MODULE MCDvNetwork ----------------------------
(***************************************************************************)
(* Small networks for TLC.                                                 *)
(***************************************************************************)
EXTENDS DvNetwork, TLC

CONSTANTS a, b, c, ab, ab2, bc, ac

\* Round-trip times are twice a link's delay in milliseconds, so even.
LineEnds == ab :> {a, b} @@ bc :> {b, c}
LineRtt  == ab :> {2} @@ bc :> {2}
TwinEnds == ab :> {a, b} @@ ab2 :> {a, b} @@ bc :> {b, c}
TwinRtt  == ab :> {2, 4} @@ ab2 :> {4} @@ bc :> {2}
RingEnds == ab :> {a, b} @@ bc :> {b, c} @@ ac :> {a, c}
RingRtt  == ab :> {2} @@ bc :> {2} @@ ac :> {6}
=============================================================================
