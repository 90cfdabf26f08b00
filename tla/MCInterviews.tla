---------------------------- MODULE MCInterviews ----------------------------
EXTENDS Interviews, TLC

\* Half-hour units: an hour is 2, a day 48, the notice 24 hours.  Late
\* evening and early morning slots meet across midnight, where the count per
\* day does not help.
MCSlot(d, t, z, n) == [day |-> d, time |-> t, zone |-> z, duration |-> n]
MCSlots == { MCSlot(2, 43, "home", 2), MCSlot(2, 46, "home", 2),
             MCSlot(3, 0, "home", 1),
             MCSlot(3, 0, "away", 2) }
MCWindows == (2 :> {<<42, 46>>} @@ 3 :> {<<0, 1>>})
MCZoneShift == ("home" :> 2 @@ "away" :> 0)
IdSymmetry == Permutations(Ids)

\* Statements a gateway has under way at once.
UnsentBound == \A g \in Gateways : Cardinality(unsent[g]) <= 3
=============================================================================
