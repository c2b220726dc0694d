------------------------- MODULE PropertyIdentity -------------------------
(* Which property a report is about: identity/service.py,                 *)
(* report_analysis/document_identity.py and documents.py.  Two resolvers   *)
(* share one table of properties.  The legacy one (resolve_property, called *)
(* by finish_unit) matches by parcel number, by address, and by similarity; *)
(* the conservative one (resolve_identity, called for an entity of a       *)
(* document) refuses what is ambiguous.  Each resolution is one            *)
(* transaction: an advisory lock, a query, perhaps an insert, a commit; an *)
(* entity's publication is a second one.  The two resolvers take different *)
(* locks, and an entity without a street takes none, so only the unique    *)
(* indexes of the table stand between them.  Operators archive and restore *)
(* properties and set merge pointers meanwhile; merge and unmerge, which   *)
(* also move reports, are the library's: no endpoint calls them.           *)
(*                                                                         *)
(* A property is named after the report that created it: a report creates  *)
(* at most one.  Addresses are abstract: a street (number, street, suffix, *)
(* unit), a ZIP, a city with its state, and a similarity in per cent.      *)
EXTENDS Naturals, FiniteSets, Sequences

CONSTANTS
    Reports,        \* the reports to be resolved
    Conservative,   \* those that resolve_identity resolves
    Streets, Zips, Cities, Apns, Counties, Houses,
    Evidence,       \* what a report may carry: [apn, fips, street, zip, city]
    House,          \* House[s]: the house number of a street portion, or None
    Closeness,      \* Closeness[s][t]: trigram similarity of two streets
    MaxEdits,       \* how often operators act
    None

ASSUME IdentityAssumption ==
    /\ Conservative \subseteq Reports
    /\ Evidence \subseteq [apn : Apns \cup {None}, fips : Counties \cup {None},
                         street : Streets \cup {None}, zip : Zips \cup {None},
                         city : Cities \cup {None}]
    /\ House \in [Streets -> Houses \cup {None}]
    /\ Closeness \in [Streets -> [Streets -> 0..100]]
    /\ MaxEdits \in Nat
    /\ None \notin Reports \cup Streets \cup Zips \cup Cities \cup Apns \cup Counties \cup Houses
    /\ Zips \cap Cities = {}

VARIABLES
    evidence,   \* evidence[r]: the parcel number and the address of a report
    row,        \* row[p]: the committed row of a property, or None
    pc,         \* where the resolution of a report is
    choice,     \* what a resolution has decided after its query
    home,       \* reports.property_id, of an entity its row's property_id
    moves,      \* identity_merge_report_moves not yet restored
    flagged,    \* flags raised: <<type, property, other property>>
    edits,      \* operators' actions so far
    origin,     \* history: where a resolution attached the report
    undo,       \* history: while lifo, the merges in force, in their order
    lifo        \* history: every unmerge undid the latest merge

identityVars ==
    <<evidence, row, pc, choice, home, moves, flagged, edits, origin, undo, lifo>>

Apn(r) == evidence[r].apn
Fips(r) == evidence[r].fips
Street(r) == evidence[r].street
Zip(r) == evidence[r].zip
City(r) == evidence[r].city

(* Parcel keys: a county, if known, and a parcel number. *)
ParcelKeys == (Counties \cup {None}) \X Apns

Rows == [apn : Apns \cup {None}, key : ParcelKeys \cup {None}, street : Streets,
         zip : Zips \cup {None}, hash : Streets \X (Zips \cup Cities \cup {None}),
         merged : Reports \cup {None}, archived : BOOLEAN]

(* What a resolution knows: the property it will attach to, what it read of *)
(* it, the parcel key it would insert, and the properties it would flag.    *)
Decisions == [take : Reports \cup {None}, seen : Rows \cup {None},
            key : ParcelKeys \cup {None},
            flag : {"none", "conflict", "duplicate"}, other : Reports \cup {None}]

ASSUME NoneAssumption == None \notin Rows \cup Decisions \cup ParcelKeys

Phases == {"idle", "locked", "create", "take", "attached", "done", "rejected"}

IdentityTypeOK ==
    /\ evidence \in [Reports -> Evidence]
    /\ row \in [Reports -> Rows \cup {None}]
    /\ pc \in [Reports -> Phases]
    /\ choice \in [Reports -> Decisions \cup {None}]
    /\ home \in [Reports -> Reports \cup {None}]
    /\ moves \subseteq Reports \X Reports \X Reports
    /\ flagged \subseteq {"conflict", "duplicate"} \X Reports \X Reports
    /\ edits \in 0..MaxEdits
    /\ origin \in [Reports -> Reports \cup {None}]
    /\ undo \in Seq(Reports)
    /\ lifo \in BOOLEAN

(* identity_evidence_from_facts: a report without a street and a house     *)
(* number is not brought to the legacy resolver.                           *)
HasAddress(r) == Street(r) # None /\ House[Street(r)] # None

IdentityInit ==
    /\ evidence \in [Reports -> Evidence]
    /\ \A r \in Reports \ Conservative : HasAddress(r)
    /\ row = [p \in Reports |-> None]
    /\ pc = [r \in Reports |-> "idle"]
    /\ choice = [r \in Reports |-> None]
    /\ home = [r \in Reports |-> None]
    /\ moves = {}
    /\ flagged = {}
    /\ edits = 0
    /\ origin = [r \in Reports |-> None]
    /\ undo = <<>>
    /\ lifo = TRUE

----------------------------------------------------------------------------
(* Keys and matches.                                                       *)

(* Without a ZIP the conservative resolver hashes city and state instead, *)
(* and it forms no parcel key without a county.                            *)
Hash(r) == <<Street(r), IF r \in Conservative /\ Zip(r) = None THEN City(r) ELSE Zip(r)>>
Key(r) == IF Apn(r) = None \/ (r \in Conservative /\ Fips(r) = None)
          THEN None ELSE <<Fips(r), Apn(r)>>

Differ(x, y) == x # None /\ y # None /\ x # y

Live(p) == row[p] # None /\ row[p].merged = None

SameKey(p, r) == Key(r) # None /\ row[p].key = Key(r)

Matches(r) == {p \in Reports : Live(p) /\ (row[p].hash = Hash(r) \/ SameKey(p, r))}

ConflictsWith(p, r) ==
    Differ(row[p].zip, Zip(r)) \/ Differ(House[row[p].street], House[Street(r)])

Score(p, r) == Closeness[row[p].street][Street(r)]

(* Mistake: a different parcel number does not count against a match. *)
FuzzyNearby(r) == {p \in Reports : Live(p) /\ Zip(r) # None /\ row[p].zip = Zip(r)}

FuzzyCandidates(r) ==
    {p \in Reports : /\ Live(p)
                     /\ Zip(r) # None /\ row[p].zip = Zip(r)
                     /\ ~Differ(row[p].key, Key(r))}

(* The best of them, if it reaches the lower threshold. *)
FuzzyDuplicates(r) ==
    {p \in FuzzyCandidates(r) : /\ Score(p, r) >= 80
                                /\ \A q \in FuzzyCandidates(r) : Score(q, r) <= Score(p, r)}

FuzzyMerges(p, r) ==
    Score(p, r) >= 92 /\ House[Street(r)] # None /\ House[row[p].street] = House[Street(r)]

----------------------------------------------------------------------------
(* Resolution.                                                             *)

LockOf(r) ==
    <<r \in Conservative, IF Key(r) # None THEN <<Key(r)>> ELSE Hash(r)>>

InTransaction(r) == pc[r] \in {"locked", "create", "take"}

(* What resolve_identity refuses before it takes its lock: no house number, *)
(* or neither a ZIP nor city and state.                                     *)
Unusable(r) == House[Street(r)] = None \/ (Zip(r) = None /\ City(r) = None)

Lock(r) ==
    /\ pc[r] = "idle" /\ home[r] = None /\ Street(r) # None
    /\ r \in Conservative => ~Unusable(r)
    /\ \A s \in Reports : InTransaction(s) /\ Street(s) # None => LockOf(s) # LockOf(r)
    /\ pc' = [pc EXCEPT ![r] = "locked"]
    /\ UNCHANGED <<evidence, row, choice, home, moves, flagged, edits, origin, undo, lifo>>

Decide(r, phase, c) ==
    /\ pc' = [pc EXCEPT ![r] = phase]
    /\ choice' = [choice EXCEPT ![r] = c]
    /\ UNCHANGED <<evidence, row, home, moves, flagged, edits, origin, undo, lifo>>

Take(r, p) ==
    Decide(r, "take",
           [take |-> p, seen |-> row[p], key |-> None, flag |-> "none", other |-> None])

Insert(r, key, flag, other) ==
    Decide(r, "create",
           [take |-> None, seen |-> None, key |-> key, flag |-> flag, other |-> other])

(* first() of an unordered query: any match.  A match by parcel number whose *)
(* house number or ZIP differs is not merged; the new row gets no parcel key. *)
QueryMatch(r) ==
    /\ pc[r] = "locked" /\ r \notin Conservative
    /\ \E p \in Matches(r) :
         IF SameKey(p, r) /\ ConflictsWith(p, r)
         THEN Insert(r, None, "conflict", p)
         ELSE Take(r, p)

QueryFuzzy(r) ==
    /\ pc[r] = "locked" /\ r \notin Conservative
    /\ Matches(r) = {}
    /\ \E p \in FuzzyDuplicates(r) :
         IF FuzzyMerges(p, r) THEN Take(r, p) ELSE Insert(r, Key(r), "duplicate", p)

QueryNew(r) ==
    /\ pc[r] = "locked" /\ r \notin Conservative
    /\ Matches(r) = {} /\ FuzzyDuplicates(r) = {}
    /\ Insert(r, Key(r), "none", None)

(* resolve_identity: one match and no disagreement, or none, or a refusal.  *)
(* Parcel numbers are compared without their counties.                     *)
Agrees(p, r) ==
    /\ row[p].street = Street(r) /\ row[p].zip = Zip(r)
    /\ ~Differ(row[p].apn, Apn(r))

QueryExact(r) ==
    /\ pc[r] = "locked" /\ r \in Conservative
    /\ \/ /\ Matches(r) = {}
          /\ Insert(r, Key(r), "none", None)
       \/ \E p \in Matches(r) :
            /\ Matches(r) = {p} /\ Agrees(p, r)
            /\ Take(r, p)

Refuse(r) ==
    /\ r \in Conservative
    /\ \/ pc[r] = "idle" /\ Street(r) # None /\ Unusable(r)
       \/ /\ pc[r] = "locked"
          /\ \/ Cardinality(Matches(r)) > 1
             \/ \E p \in Matches(r) : ~Agrees(p, r)
    /\ Decide(r, "rejected", None)

(* An entity without a street is looked up by its parcel key, under no lock. *)
FindParcel(r) ==
    /\ pc[r] = "idle" /\ r \in Conservative /\ Street(r) = None
    /\ \/ \E p \in Reports : Live(p) /\ SameKey(p, r) /\ Take(r, p)
       \/ /\ \A p \in Reports : Live(p) => ~SameKey(p, r)
          /\ Decide(r, "rejected", None)

NewRow(r) ==
    [apn |-> Apn(r), key |-> choice[r].key, street |-> Street(r), zip |-> Zip(r),
     hash |-> Hash(r), merged |-> None, archived |-> FALSE]

(* Mistake: only parcel numbers are unique. *)
CollideByParcel(x, y) == x.key # None /\ x.key = y.key

(* The unique indexes on active rows. *)
Collide(x, y) == x.hash = y.hash \/ (x.key # None /\ x.key = y.key)

(* A resolution in "take" whose property is itself has inserted its row. *)
Inserted(s) == pc[s] = "take" /\ choice[s].take = s

(* An insert waits for a colliding row that is not committed... *)
Waits(r) == \E s \in Reports \ {r} : Inserted(s) /\ Collide(NewRow(r), choice[s].seen)

(* ...and fails on one that is. *)
Clashes(r) == \E p \in Reports : Live(p) /\ Collide(NewRow(r), row[p])

(* _create_property: the row is inserted in a savepoint. *)
Create(r) ==
    /\ pc[r] = "create"
    /\ ~Waits(r) /\ ~Clashes(r)
    /\ Decide(r, "take", [choice[r] EXCEPT !.take = r, !.seen = NewRow(r)])

(* The savepoint failed: the query is repeated and its first row is taken. *)
CreateLost(r) ==
    /\ pc[r] = "create" /\ r \notin Conservative
    /\ ~Waits(r) /\ Clashes(r)
    /\ \E p \in Matches(r) : Take(r, p)

(* The transaction fails: resolve_identity has no savepoint.  The job is retried. *)
CreateFails(r) ==
    /\ pc[r] = "create" /\ r \in Conservative
    /\ ~Waits(r) /\ Clashes(r)
    /\ Decide(r, "idle", None)

(* Or the transaction fails for any other reason. *)
Rollback(r) == InTransaction(r) /\ Decide(r, "idle", None)

Flags(r) ==
    LET c == choice[r] IN
    IF c.flag = "conflict" THEN {<<"conflict", r, c.other>>, <<"conflict", c.other, r>>}
    ELSE IF c.flag = "duplicate" THEN {<<"duplicate", r, c.other>>} ELSE {}

(* Missing columns of x are filled from the report, by what was seen of them. *)
Filled(x, seen, r) ==
    [x EXCEPT !.zip = IF seen.zip = None /\ Zip(r) # None THEN Zip(r) ELSE @,
              !.apn = IF seen.apn = None /\ Apn(r) # None THEN Apn(r) ELSE @]

(* A legacy resolution restores an archived property and fills its missing *)
(* columns in one transaction, both by what it read of them.               *)
Updated(r) ==
    LET c == choice[r]
        now == IF c.take = r THEN c.seen ELSE row[c.take]
    IN IF r \in Conservative THEN now
       ELSE [Filled(now, c.seen, r) EXCEPT !.archived = IF c.seen.archived THEN FALSE ELSE @]

Commit(r) ==
    /\ pc[r] = "take"
    /\ pc' = [pc EXCEPT ![r] = IF r \in Conservative THEN "attached" ELSE "done"]
    /\ row' = [row EXCEPT ![choice[r].take] = Updated(r)]
    /\ home' = [home EXCEPT ![r] = choice[r].take]
    /\ origin' = [origin EXCEPT ![r] = choice[r].take]
    /\ flagged' = flagged \cup (IF choice[r].take = r THEN Flags(r) ELSE {})
    /\ choice' = [choice EXCEPT ![r] = None]
    /\ UNCHANGED <<evidence, moves, edits, undo, lifo>>

(* An entity's publication reads the row again, for update, and fills what  *)
(* is missing there; an archived property stays archived.  It may fail.    *)
Publish(r) ==
    /\ pc[r] = "attached"
    /\ pc' = [pc EXCEPT ![r] = "done"]
    /\ \/ row' = [row EXCEPT ![home[r]] = Filled(@, @, r)]
       \/ UNCHANGED row
    /\ UNCHANGED <<evidence, choice, home, moves, flagged, edits, origin, undo, lifo>>

----------------------------------------------------------------------------
(* Operators.                                                              *)

Edit ==
    /\ edits < MaxEdits
    /\ edits' = edits + 1
    /\ UNCHANGED <<evidence, pc, choice, flagged, origin>>

SetArchived(p, value) ==
    /\ row[p] # None /\ row[p].archived # value
    /\ Edit
    /\ row' = [row EXCEPT ![p].archived = value]
    /\ UNCHANGED <<home, moves, undo, lifo>>

Archive(p) == SetArchived(p, TRUE)
Restore(p) == SetArchived(p, FALSE)

(* A soft pointer, and every report moved with a record of its move; the     *)
(* rows of entities stay where they are.                                     *)
ReportsOf(p) == {r \in Reports \ Conservative : home[r] = p}

Merge(p, q) ==
    /\ p # q /\ Live(p) /\ Live(q)
    /\ Edit
    /\ row' = [row EXCEPT ![p].merged = q]
    /\ home' = [r \in Reports |-> IF r \in ReportsOf(p) THEN q ELSE home[r]]
    /\ moves' = moves \cup {<<p, q, r>> : r \in ReportsOf(p)}
    /\ undo' = Append(undo, p)
    /\ UNCHANGED lifo

(* Mistake: the moves into p. *)
MovedInto(p) == {m \in moves : m[2] = p}

MovedFrom(p) == {m \in moves : m[1] = p}

(* The unique indexes admit the row of p as an active one. *)
Unhindered(p) ==
    /\ \A q \in Reports : Live(q) => ~Collide(row[p], row[q])
    /\ \A s \in Reports : Inserted(s) => ~Collide(row[p], choice[s].seen)

(* The merge of p is no longer in force; if it was not the latest one, the   *)
(* order is lost.                                                            *)
IsLatest(p) == undo # <<>> /\ undo[Len(undo)] = p

Undone(p) ==
    /\ lifo' = (lifo /\ \A n \in 1..Len(undo) : undo[n] = p => n = Len(undo))
    /\ undo' = IF IsLatest(p) THEN SubSeq(undo, 1, Len(undo) - 1) ELSE undo

(* The pointer is cleared, and a report goes back if it is still where the   *)
(* merge put it.                                                             *)
Unmerge(p) ==
    /\ row[p] # None /\ row[p].merged # None
    /\ Unhindered(p)
    /\ Edit
    /\ row' = [row EXCEPT ![p].merged = None]
    /\ home' = [r \in Reports |->
                  IF \E m \in MovedFrom(p) : m[3] = r /\ m[2] = home[r] THEN p ELSE home[r]]
    /\ moves' = moves \ MovedFrom(p)
    /\ Undone(p)

(* The API's endpoints set and clear the pointer and do nothing else: no     *)
(* report moves, and a property may be pointed at one that is merged itself. *)
PointTo(p, q) ==
    /\ p # q /\ row[p] # None /\ row[q] # None
    /\ Edit
    /\ row' = [row EXCEPT ![p].merged = q]
    /\ UNCHANGED <<home, moves, undo, lifo>>

ClearPointer(p) ==
    /\ row[p] # None /\ row[p].merged # None
    /\ Unhindered(p)
    /\ Edit
    /\ row' = [row EXCEPT ![p].merged = None]
    /\ lifo' = (lifo /\ \A n \in 1..Len(undo) : undo[n] # p)
    /\ UNCHANGED <<home, moves, undo>>

----------------------------------------------------------------------------
Resolve(r) ==
    \/ Lock(r) \/ QueryMatch(r) \/ QueryFuzzy(r) \/ QueryNew(r) \/ QueryExact(r) \/ Refuse(r)
    \/ FindParcel(r) \/ Create(r) \/ CreateLost(r) \/ CreateFails(r) \/ Rollback(r)
    \/ Commit(r) \/ Publish(r)

AllResolved == \A r \in Reports : pc[r] \in {"done", "rejected"}

IdentityNext ==
    \/ \E r \in Reports : Resolve(r)
    \/ \E p \in Reports : Archive(p) \/ Restore(p) \/ Unmerge(p) \/ ClearPointer(p)
    \/ \E p, q \in Reports : Merge(p, q) \/ PointTo(p, q)
    \/ AllResolved /\ UNCHANGED identityVars

IdentitySpec == IdentityInit /\ [][IdentityNext]_identityVars
----------------------------------------------------------------------------
(* Properties.                                                             *)

(* "A bad merge fuses two properties' debts": a report is attached to a    *)
(* property it did not create only for the same address, the same parcel   *)
(* key, or a close address with the same house number, where neither the   *)
(* parcel key nor the ZIP of the report that made the property is against  *)
(* it; an entity only at its own street where the property's parcel number *)
(* is not another, or, without a street, by county and parcel number.  By  *)
(* the commit other transactions have changed what the query read.         *)
HasCause(p, r) ==
    IF r \in Conservative
    THEN IF Street(r) = None
         THEN Fips(r) # None /\ SameKey(p, r)
         ELSE /\ row[p].street = Street(r)
              /\ row[p].hash = Hash(r) \/ SameKey(p, r)
              /\ row[p].key # None /\ Apn(r) # None => row[p].key[2] = Apn(r)
    ELSE \/ row[p].hash = Hash(r)
         \/ SameKey(p, r)
         \/ /\ ~Differ(row[p].key, Key(r))
            /\ Zip(r) # None /\ ~Differ(Zip(p), Zip(r))
            /\ FuzzyMerges(p, r)

AttachedForCause ==
    [][\A r \in Reports :
          home[r] = None /\ home'[r] \notin {None, r} => HasCause(home'[r], r)]_identityVars

(* "A bad split hides half the liens": two reports that carry the same     *)
(* identity, of which no other report carries a part, are attached to one  *)
(* property, whichever resolver takes them and however they interleave,    *)
(* unless operators have merged it away in between.  A property without a   *)
(* ZIP may be given one by any report that shares its parcel number, so a   *)
(* missing ZIP sets no close address apart.                                 *)
Identical(r, s) ==
    /\ Apn(r) = Apn(s) /\ Fips(r) = Fips(s)
    /\ Street(r) # None /\ Hash(r) = Hash(s)

Unrelated(r, s) ==
    /\ Apn(r) = None \/ Apn(r) # Apn(s)
    /\ Hash(r) # Hash(s)
    /\ \/ Differ(Zip(r), Zip(s))
       \/ None \in {Street(r), Street(s)}
       \/ House[Street(r)] # House[Street(s)]
       \/ Closeness[Street(s)][Street(r)] < 92

Unambiguous(r) == \A s \in Reports : Identical(r, s) \/ (Unrelated(r, s) /\ Unrelated(s, r))

OneHome ==
    \A r, s \in Reports :
        /\ Unambiguous(r) /\ Identical(r, s)
        /\ origin[r] # None /\ origin[s] # None
        /\ Live(origin[r]) /\ Live(origin[s])
        => origin[r] = origin[s]

(* "Merges are reversible" (specification, 4.5): when every merge has been  *)
(* undone, latest first, each report is where its resolution had put it.   *)
AllUndone == \A p \in Reports : row[p] # None => row[p].merged = None

UndoneInReverse ==
    AllUndone /\ lifo => \A r \in Reports : home[r] = origin[r]
=============================================================================
