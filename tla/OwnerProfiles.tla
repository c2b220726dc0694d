--------------------------- MODULE OwnerProfiles ----------------------------
(***************************************************************************)
(* Owners of properties and the owner profiles found in documents          *)
(* (identity/owners.py, identity/service.py persist_property_owners and    *)
(* confirm_owner_link, report_analysis/documents.py _publish_entity for    *)
(* kind "owner", api/routes_owner.py link_owner_profile).                  *)
(*                                                                         *)
(* A property report names owners and links them to the property.  An      *)
(* owner profile makes an owner of its own with contacts, liens and        *)
(* bankruptcies; a person may later link it to an owner of the same        *)
(* normalized name, and a reanalysis of the same document links the new    *)
(* owner to the one it published before.  Bankruptcies are moved exactly   *)
(* as liens are and are not modelled apart; dates, age and phone are data. *)
(***************************************************************************)
EXTENDS Naturals, FiniteSets, Functions

CONSTANTS OwnerIds,     \* primary keys of `owners`
          Names,        \* normalize_owner_name values
          Mails,        \* normalize_mailing_address values
          NoMail,       \* mailing_address IS NULL
          Details,      \* what else a profile says: its contacts and liens
          Documents,    \* owner-profile documents
          Homes,        \* properties
          MaxLiens      \* bound on published profiles: each adds a lien row

ASSUME OwnerAssumption == NoMail \notin Mails /\ IsFiniteSet(OwnerIds)

VARIABLES
    owners,     \* rows of owners: id -> name and mailing address (partial)
    holds,      \* rows of property_owners: <<home, owner, is_current>>
    profiles,   \* active owner rows of report_entity_extractions
    contacts,   \* rows of owner_contacts: <<owner, value>> (UNIQUE)
    ownerLiens  \* rows of liens with property_id NULL: <<owner, value>> -> count

ownerVars == <<owners, holds, profiles, contacts, ownerLiens>>

Persons == [name : Names, mail : Mails \cup {NoMail}]
Profiles == [document : Documents, person : Persons, detail : Details,
             owner : OwnerIds, linked : BOOLEAN]

OwnerTypeOK ==
    /\ DOMAIN owners \subseteq OwnerIds
    /\ \A o \in DOMAIN owners : owners[o] \in Persons
    /\ holds \subseteq Homes \X OwnerIds \X BOOLEAN
    /\ profiles \subseteq Profiles
    /\ contacts \subseteq OwnerIds \X Details
    /\ ownerLiens \in [OwnerIds \X Details -> Nat]

OwnerInit ==
    /\ owners = [o \in {} |-> {}]
    /\ holds = {}
    /\ profiles = {}
    /\ contacts = {}
    /\ ownerLiens = [row \in OwnerIds \X Details |-> 0]

Unused == OwnerIds \ DOMAIN owners
Add(rows, o, p) == [x \in DOMAIN rows \cup {o} |-> IF x = o THEN p ELSE rows[x]]
Without(rows, o) == [x \in DOMAIN rows \ {o} |-> rows[x]]
Coalesced(row, mail) == IF row.mail = NoMail THEN [row EXCEPT !.mail = mail] ELSE row

-----------------------------------------------------------------------------
(* persist_property_owners, under the property lock of _publish_entity: the
   names of one report, with one mailing address for all of them. *)

CurrentOf(h) == {o \in DOMAIN owners : <<h, o, TRUE>> \in holds}

(* An owner already linked to this property with that name, else one linked
   to any property with that name and mailing address, else a new one. *)
Choosable(h, p) ==
    LET here == {c \in CurrentOf(h) : owners[c].name = p.name}
        elsewhere == {c \in DOMAIN owners : /\ \E row \in holds : row[2] = c
                                            /\ p.mail # NoMail /\ owners[c] = p}
    IN  IF here # {} THEN here ELSE IF elsewhere # {} THEN elsewhere ELSE Unused

(* Current links of owners that the report does not name are closed. *)
Relinked(h, chosen) ==
    {IF row[1] = h THEN <<h, row[2], FALSE>> ELSE row : row \in
            {r \in holds : ~ (r[1] = h /\ r[2] \in chosen)}}
        \cup {<<h, o, TRUE>> : o \in chosen}

PersistPropertyOwners(h, named, mail, pick) ==
    LET Person(n) == [name |-> n, mail |-> mail]
        chosen == {pick[n] : n \in named}
        nameOf(o) == CHOOSE n \in named : pick[n] = o
    IN  /\ \A n \in named : pick[n] \in Choosable(h, Person(n))
        /\ IsInjective(pick)
        /\ owners' = [o \in DOMAIN owners \cup chosen |->
                CASE o \notin chosen -> owners[o]
                  [] o \in Unused -> Person(nameOf(o))
                  [] OTHER -> Coalesced(owners[o], mail)]
        /\ holds' = Relinked(h, chosen)
        /\ UNCHANGED <<profiles, contacts, ownerLiens>>

-----------------------------------------------------------------------------
(* Mistake: the source's liens take the place of the target's. *)
ReplaceLiens(rows, source, target) ==
    [row \in OwnerIds \X Details |->
        CASE row[1] = source -> 0
          [] row[1] = target -> rows[<<source, row[2]>>]
          [] OTHER -> rows[row]]

(* confirm_owner_link: the target takes what it lacks, contacts that it does
   not have yet, every lien and every published profile of the source; the
   source is deleted. *)
Absorb(rows, source, target) ==
    [Without(rows, source) EXCEPT ![target] = Coalesced(@, rows[source].mail)]
MoveContacts(rows, source, target) ==
    {IF c[1] = source THEN <<target, c[2]>> ELSE c : c \in rows}
MoveLiens(rows, source, target) ==
    [row \in OwnerIds \X Details |->
        CASE row[1] = source -> 0
          [] row[1] = target -> rows[row] + rows[<<source, row[2]>>]
          [] OTHER -> rows[row]]
MoveProfiles(rows, source, target) ==
    {IF r.owner = source THEN [r EXCEPT !.owner = target] ELSE r : r \in rows}

(* DELETE FROM owners is refused while property_owners refers to the row. *)
Deletable(o) == \A row \in holds : row[2] # o

(* persist_owner_profile: a new owner with the contacts and the liens of the
   profile, whoever else has that name. *)
NewContacts(o, d) == contacts \cup {<<o, d>>}
NewLiens(o, d) == [ownerLiens EXCEPT ![<<o, d>>] = @ + 1]

(* _publish_entity for an owner: the row of an earlier run of the document
   with the same person (name and mailing address known) is replaced; one
   that says the same is carried over as it is. *)
Previous(doc, p) == {r \in profiles : r.document = doc /\ r.person = p
                                          /\ p.mail # NoMail}

PublishAgain(doc, p, d) ==
    \E prev \in Previous(doc, p), o \in Unused :
        /\ prev.detail # d
        /\ LET target == prev.owner
               row == [prev EXCEPT !.detail = d]
           IN  /\ owners' = Absorb(Add(owners, o, p), o, target)
               /\ contacts' = MoveContacts(NewContacts(o, d), o, target)
               /\ ownerLiens' = MoveLiens(NewLiens(o, d), o, target)
               /\ profiles' = (profiles \ {prev}) \cup {row}
        /\ UNCHANGED holds

PublishNew(doc, p, d) ==
    /\ Previous(doc, p) = {}
    /\ \E o \in Unused :
          /\ owners' = Add(owners, o, p)
          /\ contacts' = NewContacts(o, d)
          /\ ownerLiens' = NewLiens(o, d)
          /\ profiles' = profiles \cup {[document |-> doc, person |-> p,
                                detail |-> d, owner |-> o, linked |-> FALSE]}
    /\ UNCHANGED holds

(* owner_link_candidates: every other owner of that normalized name. *)
LinkCandidates(o) == {c \in DOMAIN owners \ {o} : owners[c].name = owners[o].name}

(* POST /owner-profiles/{report_id}/link: nothing asks whether the profile is
   linked already, so its owner may be one that a property refers to; the
   request then fails and changes nothing. *)
LinkOwnerProfile(r, target) ==
    /\ target \in LinkCandidates(r.owner)
    /\ Deletable(r.owner)
    /\ owners' = Absorb(owners, r.owner, target)
    /\ contacts' = MoveContacts(contacts, r.owner, target)
    /\ ownerLiens' = MoveLiens(ownerLiens, r.owner, target)
    /\ profiles' = MoveProfiles(profiles \ {r}, r.owner, target)
           \cup {[r EXCEPT !.owner = target, !.linked = TRUE]}
    /\ UNCHANGED holds

OwnerNext ==
    \/ \E h \in Homes, named \in SUBSET Names \ {{}}, mail \in Mails \cup {NoMail} :
          \E pick \in [named -> OwnerIds] : PersistPropertyOwners(h, named, mail, pick)
    \/ \E doc \in Documents, p \in Persons, d \in Details :
          SumFunction(ownerLiens) < MaxLiens
              /\ (PublishAgain(doc, p, d) \/ PublishNew(doc, p, d))
    \/ \E r \in profiles, target \in OwnerIds : LinkOwnerProfile(r, target)

OwnerSpec == OwnerInit /\ [][OwnerNext]_ownerVars

-----------------------------------------------------------------------------
(* Properties *)

(* However profiles are linked, linked again and published again, the owner
   that each published profile and each property names still exists and has
   the profile's name: deleting the source of a link leaves nothing behind
   that refers to it, in the rows of other documents either. *)
NoOrphanAfterLink ==
    /\ \A r \in profiles : /\ r.owner \in DOMAIN owners
                           /\ owners[r.owner].name = r.person.name
    /\ \A row \in holds : row[2] \in DOMAIN owners
    /\ \A c \in contacts : c[1] \in DOMAIN owners

(* And linking loses nothing a document said: the contact and the lien of
   every published profile are with the owner the profile is linked to by
   now. *)
LinkLosesNothing ==
    /\ NoOrphanAfterLink
    /\ \A r \in profiles : /\ <<r.owner, r.detail>> \in contacts
                           /\ ownerLiens[<<r.owner, r.detail>>] > 0
=============================================================================
