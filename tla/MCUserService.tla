--------------------------- MODULE MCUserService ---------------------------
(***************************************************************************)
(* A small instance of UserService: two addresses, one of them in two      *)
(* spellings, one handle and none, and the requests that contend for them. *)
(***************************************************************************)
EXTENDS UserService, TLC

CONSTANTS p1, p2, u1, u2, respelled, malformed,
          ada, blank, a, A, b, noAt, h, H, spaces

MCId == {u1, u2}
MCRawId == MCId \cup {respelled, malformed}
MCCanonicalId == [raw \in MCRawId |-> IF raw \in MCId THEN raw
                                      ELSE IF raw = respelled THEN u1 ELSE Invalid]

\* "A" is "a" in upper case; "noAt" has no @.
MCCanonicalEmail == [raw \in {a, A, b, noAt} |-> IF raw = A THEN a
                                                 ELSE IF raw = noAt THEN Invalid ELSE raw]

\* "H" is "h" in upper case; "spaces" is blank but not empty.
MCCanonicalHandle == [raw \in {h, H, spaces, NoHandle} |->
                         IF raw = H THEN h ELSE IF raw = spaces THEN Invalid ELSE raw]

Creates(names, emails, handles) ==
    [op : {"create"}, name : names, email : emails, handle : handles]
Updates(raws, expected, names, emails, handles) ==
    [op : {"update"}, raw : raws, expected : expected, name : names,
     email : emails, handle : handles]
Deletes == [op : {"delete"}, raw : {u1}]

Lists == [op : {"list"}]
Finds == [op : {"find"}, raw : MCRawId]

\* What clients can send, as far as the outcomes differ.
ClientRequests ==
    Creates({ada}, {a, A, b}, {h, H, NoHandle})
        \cup Creates({ada}, {noAt}, {h})
        \cup Updates({u1, u2}, {NoVersion}, {Omitted}, {Omitted, A, b}, {Omitted, NoHandle, H})
        \cup Updates({respelled, u1}, {0, 1}, {Omitted}, {Omitted}, {h})
        \cup Updates({u1}, {NoVersion}, {blank, ada}, {Omitted}, {Omitted})
        \cup Updates({u1}, {NoVersion}, {Omitted}, {b}, {spaces})
        \cup Lists \cup Finds

\* And callers of the repository's Delete.
AllRequests == ClientRequests \cup Deletes

\* With handles only.
HandledRequests ==
    Creates({ada}, {a, b}, {h, NoHandle})
        \cup Updates({u1}, {NoVersion, 1}, {ada}, {Omitted, b}, {Omitted})
        \cup Lists

\* The goroutines are interchangeable.
Symmetry == Permutations(Proc)
=============================================================================
