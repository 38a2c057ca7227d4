------------------------- MODULE MCCharacterService -------------------------
(***************************************************************************)
(* A small instance of CharacterService: sheets of three sections, one of  *)
(* them required, one optional and one server-owned, and the requests that *)
(* tell the outcomes apart.                                                *)
(***************************************************************************)
EXTENDS CharacterService, TLC

CONSTANTS p1, p2, p3, c1, c2, respelled, malformed, bad,
          vitals, notes, docType, v1, v2, broken

MCId == {c1, c2}
OneId == {c1}
MCRawId == MCId \cup {respelled, malformed}
\* "respelled" is c1 in another spelling of the same UUID.
MCCanonical == [raw \in MCRawId |-> IF raw \in MCId THEN raw
                                    ELSE IF raw = respelled THEN c1 ELSE bad]
OneRawId == OneId \cup {respelled, malformed}
OneCanonical == [raw \in OneRawId |-> MCCanonical[raw]]

Doc(v, n, t) == vitals :> v @@ notes :> n @@ docType :> t

Plain == Doc(v1, Absent, v1)
Full == Doc(v2, v1, v1)
Invalid == Doc(Absent, v1, v1)
Retyped == Doc(v2, v2, v2)

PatchVitals == Doc(v2, Untouched, Untouched)
PatchNotes == Doc(Untouched, v2, Untouched)
DropNotes == Doc(Untouched, Absent, Untouched)
DropVitals == Doc(Absent, Untouched, Untouched)
BreakNotes == Doc(Untouched, broken, Untouched)
PatchType == Doc(Untouched, Untouched, v2)

Creates == [op : {"create"}, doc : {Plain, Invalid}]
Updates(ids, expected, docs) == [op : {"update"}, raw : ids, expected : expected, doc : docs]
Patches(ids, expected, docs) == [op : {"patch"}, raw : ids, expected : expected, doc : docs]
Finds(ids) == [op : {"find"}, raw : ids]

\* Writers in a race for one character.
RaceRequests ==
    [op : {"create"}, doc : {Plain}]
        \cup Updates({c1}, {NoVersion, 1}, {Full})
        \cup Patches({c1}, {NoVersion, 1}, {PatchVitals})
        \cup Patches({c1}, {2}, {PatchNotes})
        \cup Finds({c1})

\* Every kind of request and of refusal, in a few goroutines.
AllRequests ==
    Creates
        \cup Updates(MCRawId \ {malformed}, {NoVersion, 1}, {Full, Invalid, Omitted})
        \cup Updates({c1}, {0, 2}, {Retyped})
        \cup Patches({c1}, {NoVersion, 1},
                     {PatchNotes, DropNotes, DropVitals, BreakNotes, PatchType, Omitted, NotObject})
        \cup Finds(MCRawId)

\* The goroutines are interchangeable.
Symmetry == Permutations(Proc)
=============================================================================
