--------------------------- MODULE MCBillingCycle ---------------------------
(* Every day from the start of FirstYear to the end of LastYear, with every  *)
(* anchor day.                                                               *)
EXTENDS BillingCycle
CONSTANTS FirstYear, LastYear
VARIABLES now, anchorDay
vars == <<now, anchorDay>>

Init == now = Date(FirstYear, 1, 1) /\ anchorDay \in 1..31

NextDay ==
    /\ \/ /\ now.d < daysInMonth(now.y, now.m)
          /\ now' = [now EXCEPT !.d = @ + 1]
       \/ /\ now.d = daysInMonth(now.y, now.m)
          /\ Ordinal(now) < Ordinal(Date(LastYear, 12, 31))
          /\ now' = NextMonth(now.y, now.m)
    /\ UNCHANGED anchorDay

Spec == Init /\ [][NextDay]_vars

\* computeBillingCycle "returns the start and end timestamps of the billing
\* cycle that contains `now`".  It does not on March 29 and 30 before a later
\* anchor day: the month before them is taken to be March.
CycleContainsNow == Contains(computeBillingCycle(now, anchorDay), now)
=============================================================================
