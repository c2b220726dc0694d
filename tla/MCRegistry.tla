----------------------------- MODULE MCRegistry ------------------------------
(* TLC instance of the components that keep the register of reports,       *)
(* properties and owners: pastes and uploads, identity, owner profiles,    *)
(* the review queue and the ranking.  They share no variable here, so a    *)
(* behaviour is one of a single component, chosen at the start; the others *)
(* stay as they begin.  Identity is there twice: every evidence with at    *)
(* most two of the operators' actions, and, as "merges", three reports of  *)
(* different properties with enough of them to merge twice and undo both.  *)
EXTENDS Intake, Uploads, PropertyIdentity, OwnerProfiles, FlagLedger, Ranking, TLC

CONSTANTS r1, r2, r3

(* Three spellings of a street, "b" with another house number. *)
StreetSet == {"a", "b", "c"}
Carry(apn, fips, street, zip, city) ==
    [apn |-> apn, fips |-> fips, street |-> street, zip |-> zip, city |-> city]
Carried == {Carry("X", "f", "a", "z", "c"), Carry("X", "f", "b", "z", "c"),
            Carry(None, None, "a", "z", "c"), Carry(None, None, "c", "z", "c"),
            Carry("Y", "f", "a", "z", "c"), Carry("X", "f", "a", None, "c"),
            Carry("X", None, "a", "z", "c"), Carry("X", "f", None, "z", "c"),
            Carry("X", "f", "a", None, None)}
HouseOf == [s \in StreetSet |-> IF s = "b" THEN "2" ELSE "1"]
Similarity == [s \in StreetSet |-> [t \in StreetSet |->
                  IF s = t THEN 100 ELSE IF "b" \in {s, t} THEN 85 ELSE 95]]

(* Every paste is of the same text. *)
OneText == [r \in Pastes |-> "t"]

(* Two requests with the same two files in either order, and one with one. *)
SameFiles == [u \in Uploaders |-> CASE u = "both" -> <<"f", "g">>
                                    [] u = "reversed" -> <<"g", "f">>
                                    [] u = "single" -> <<"f">>]

(* What a recompute may find: a vacant house that better data would make   *)
(* one to assign, a house in foreclosure with liens, and one whose sources *)
(* disagree on the parcel.                                                 *)
Quality(share, conflicts) ==
    [coverage |-> share, corroboration |-> share, recency |-> share,
     verification |-> share, extraction |-> share, conflicts |-> conflicts]
SomeQualities == {Quality(s, n) : s \in {10, 35, 60, 100}, n \in {0, 2}}
                   \cup {[Quality(60, 0) EXCEPT !.recency = 20, !.verification = 100]}
Lien(id, kind, basis, amount, age) ==
    [id |-> id, kind |-> kind, basis |-> basis, amount |-> amount, age |-> age, open |-> TRUE]
Offer(strategy, profit, roi, discount, margin) ==
    [strategy |-> strategy, profit |-> profit, roi |-> roi, discount |-> discount,
     margin |-> margin]
Cash == Offer(1, 60, 70, 50, 50)
Flip == Offer(2, 80, 70, 60, 50)
Assigned(profit) == Offer(Wholesale, profit, 0, 60, 0)
Deal == [offers |-> {Cash, Flip, Assigned(70)}, equityShare |-> 90, equityPct |-> 54, underwritten |-> TRUE, titleFlags |-> 0, identityConflict |-> FALSE,
         foreclosure |-> [active |-> FALSE, stage |-> "none", nts |-> FALSE, nod |-> FALSE,
                          saleNear |-> FALSE, age |-> 0, rescissions |-> 0],
         bankruptcies |-> {}, liens |-> {}, hoa |-> "none", yearsDelinquent |-> 0,
         absentee |-> TRUE, occupied |-> FALSE, yearsOwned |-> 20,
         failedListings |-> {[id |-> 1, age |-> 0]}]
Distressed ==
    [Deal EXCEPT !.foreclosure = [@ EXCEPT !.active = TRUE, !.stage = "nts", !.nts = TRUE,
                                      !.nod = TRUE, !.saleNear = TRUE, !.rescissions = 3],
                 !.bankruptcies = {[status |-> "active", sequence |-> 2, age |-> 0],
                                   [status |-> "dismissed", sequence |-> 1, age |-> 2]},
                 !.liens = {Lien(1, "federal_tax", "owner_only", 20000, 1),
                            Lien(2, "mechanics", "recorded", 9000, 0),
                            Lien(3, "judgment", "unknown", 30000, 0)},
                 !.hoa = "lien", !.occupied = TRUE]
Contested == [Deal EXCEPT !.identityConflict = TRUE, !.titleFlags = 1]
(* The spread of an assignment is more than the profit of a cash purchase. *)
Assignment == [Deal EXCEPT !.offers = {Cash, Assigned(70)}]
Found(file, quality) == [file |-> file, quality |-> quality]
FoundCases == {Found(Assignment, Quality(50, 2)), Found(Distressed, Quality(35, 2)),
               Found(Contested, Quality(60, 2))}

(* No action tells one fingerprint from another, nor r1 from r2. *)
Symmetric == Permutations(Prints) \cup Permutations({r1, r2})

VARIABLE component

registryVars == <<component, intakeVars, uploadVars, identityVars, ownerVars,
                  ledgerVars, rankingVars>>

RegistryInit ==
    /\ component \in {"intake", "uploads", "identity", "merges", "owners",
                     "ledger", "ranking"}
    /\ IntakeInit /\ UploadInit /\ IdentityInit /\ OwnerInit /\ LedgerInit /\ RankingInit
    /\ component # "identity" =>
          /\ evidence[r3] = Carry(None, None, "c", "z", "c")
          /\ {evidence[r1], evidence[r2]} = {Carry("X", "f", "b", "z", "c"),
                                            Carry("Y", "f", "a", "z", "c")}

RegistryNext ==
    /\ UNCHANGED component
    /\ \/ /\ component = "intake" /\ IntakeNext
          /\ UNCHANGED <<uploadVars, identityVars, ownerVars, ledgerVars, rankingVars>>
       \/ /\ component = "uploads" /\ UploadNext
          /\ UNCHANGED <<intakeVars, identityVars, ownerVars, ledgerVars, rankingVars>>
       \/ /\ component = "identity" /\ IdentityNext /\ edits' <= 2
          /\ UNCHANGED <<intakeVars, uploadVars, ownerVars, ledgerVars, rankingVars>>
       \/ /\ component = "merges" /\ IdentityNext
          /\ UNCHANGED <<intakeVars, uploadVars, ownerVars, ledgerVars, rankingVars>>
       \/ /\ component = "owners" /\ OwnerNext
          /\ UNCHANGED <<intakeVars, uploadVars, identityVars, ledgerVars, rankingVars>>
       \/ /\ component = "ledger" /\ LedgerNext
          /\ UNCHANGED <<intakeVars, uploadVars, identityVars, ownerVars, rankingVars>>
       \/ /\ component = "ranking" /\ RankingNext
          /\ UNCHANGED <<intakeVars, uploadVars, identityVars, ownerVars, ledgerVars>>

RegistrySpec == RegistryInit /\ [][RegistryNext]_registryVars

(* Every variable of these components has its type. *)
RegistryTypeOK == /\ IntakeTypeOK /\ UploadTypeOK /\ IdentityTypeOK /\ OwnerTypeOK
                  /\ LedgerTypeOK /\ RankingTypeOK

(* No batch waits for something that nobody is going to do: neither one of a   *)
(* paste, whose report a later paste may take away, nor one of an upload,      *)
(* whose files other uploads may have brought first.                           *)
BatchesAttended == BatchAttended /\ UploadAttended
==============================================================================
