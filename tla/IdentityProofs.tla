--------------------------- MODULE IdentityProofs ----------------------------
(*****************************************************************************)
(* Theorems about who is who: properties and the reports attached to them    *)
(* (PropertyIdentity), owners and the profiles linked to them                *)
(* (OwnerProfiles).                                                          *)
(*****************************************************************************)
EXTENDS PropertyIdentity, OwnerProfiles, SequenceTheorems, TLAPS

(*****************************************************************************)
(* OwnerProfiles, for any owners, names, documents and homes: linking a      *)
(* profile deletes an owner and loses nothing.                               *)
(*****************************************************************************)

OwnersTyped == /\ DOMAIN owners \subseteq OwnerIds
               /\ \A o \in DOMAIN owners : owners[o] \in Persons
               /\ profiles \subseteq Profiles
               /\ contacts \subseteq OwnerIds \X Details
               /\ ownerLiens \in [OwnerIds \X Details -> Nat]

OwnersInv == OwnersTyped /\ LinkLosesNothing

(* Owner o of the rows has the name n, a contact d and a lien d. *)
Has(o, n, d, rows, cs, ls) ==
    /\ o \in DOMAIN rows /\ rows[o].name = n
    /\ <<o, d>> \in cs /\ ls[<<o, d>>] > 0

Kept(r) == Has(r.owner, r.person.name, r.detail, owners, contacts, ownerLiens)

(* The invariant in the words of Kept.                                          *)
LEMMA OwnersInvParts ==
  OwnersInv <=> /\ OwnersTyped
                /\ \A r \in profiles : Kept(r)
                /\ \A entry \in holds : entry[2] \in DOMAIN owners
                /\ \A c \in contacts : c[1] \in DOMAIN owners
  BY DEF OwnersInv, LinkLosesNothing, NoOrphanAfterLink, Kept, Has

(* Nobody owns anything at first.                                               *)
LEMMA OwnersInitial == OwnerInit => OwnersInv
  BY DEF OwnerInit, OwnersInv, OwnersTyped, LinkLosesNothing, NoOrphanAfterLink

(* The fields of a published profile.                                           *)
LEMMA ProfileFields ==
  ASSUME NEW r \in Profiles
  PROVE  /\ r.owner \in OwnerIds /\ r.detail \in Details /\ r.person \in Persons
         /\ r.document \in Documents /\ r.linked \in BOOLEAN
  BY DEF Profiles

(* A profile with another owner, or said anew, is a profile.                    *)
LEMMA ProfileChanged ==
  ASSUME NEW r \in Profiles, NEW o \in OwnerIds, NEW d \in Details
  PROVE  /\ LET s == [r EXCEPT !.owner = o]
            IN  s \in Profiles /\ s.owner = o /\ s.person = r.person /\ s.detail = r.detail
         /\ LET s == [r EXCEPT !.owner = o, !.linked = TRUE]
            IN  s \in Profiles /\ s.owner = o /\ s.person = r.person /\ s.detail = r.detail
         /\ LET s == [r EXCEPT !.detail = d]
            IN  s \in Profiles /\ s.owner = r.owner /\ s.person = r.person /\ s.detail = d
  BY DEF Profiles

(* The mailing address of an owner may be filled in; the name stays. *)
LEMMA CoalescedName ==
  ASSUME NEW entry \in Persons, NEW mail \in Mails \cup {NoMail}
  PROVE  Coalesced(entry, mail) \in Persons /\ Coalesced(entry, mail).name = entry.name
  BY DEF Coalesced, Persons

-----------------------------------------------------------------------------
(* Owners, contacts and liens after the source is absorbed. *)
SameName(a, b) == a.name = b.name

(* A link deletes the source and leaves the target its name.                    *)
LEMMA AbsorbedOwners ==
  ASSUME NEW rows, NEW source \in DOMAIN rows, NEW target \in DOMAIN rows \ {source},
         DOMAIN rows \subseteq OwnerIds, \A o \in DOMAIN rows : rows[o] \in Persons
  PROVE  /\ DOMAIN Absorb(rows, source, target) = DOMAIN rows \ {source}
         /\ \A x \in DOMAIN Absorb(rows, source, target) :
               /\ Absorb(rows, source, target)[x] \in Persons
               /\ SameName(Absorb(rows, source, target)[x], rows[x])
<1> DEFINE kept == Without(rows, source)
           filled == Coalesced(kept[target], rows[source].mail)
<1>1. /\ DOMAIN kept = DOMAIN rows \ {source} /\ kept = [x \in DOMAIN kept |-> kept[x]]
      /\ \A o \in DOMAIN kept : kept[o] = rows[o]
  BY DEF Without
<1>2. rows[source].mail \in Mails \cup {NoMail} /\ kept[target] \in Persons
  BY <1>1 DEF Persons
<1>3. filled \in Persons /\ filled.name = rows[target].name
  BY <1>1, <1>2, CoalescedName
<1>4. Absorb(rows, source, target) = [kept EXCEPT ![target] = filled]
  BY DEF Absorb
<1> HIDE DEF kept, filled
<1> QED
  BY <1>1, <1>3, <1>4 DEF SameName

(* A link moves every lien of the source to the target.                         *)
LEMMA MovedLiens ==
  ASSUME NEW rows \in [OwnerIds \X Details -> Nat],
         NEW source \in OwnerIds, NEW target \in OwnerIds \ {source}
  PROVE  LET after == MoveLiens(rows, source, target)
         IN  /\ after \in [OwnerIds \X Details -> Nat]
             /\ \A o \in OwnerIds \ {source}, d \in Details :
                  /\ rows[<<o, d>>] > 0 => after[<<o, d>>] > 0
                  /\ o = target /\ rows[<<source, d>>] > 0 => after[<<o, d>>] > 0
<1> DEFINE after == MoveLiens(rows, source, target)
<1>1. after = [entry \in OwnerIds \X Details |-> after[entry]] /\ DOMAIN after = OwnerIds \X Details
  BY DEF MoveLiens
<1>2. ASSUME NEW o \in OwnerIds, NEW d \in Details
      PROVE  after[<<o, d>>] = IF o = source THEN 0
                               ELSE IF o = target THEN rows[<<o, d>>] + rows[<<source, d>>]
                               ELSE rows[<<o, d>>]
  BY <1>2 DEF MoveLiens
<1>3. \A o \in OwnerIds, d \in Details : rows[<<o, d>>] \in Nat
  OBVIOUS
<1> HIDE DEF after
<1>4. ASSUME NEW entry \in OwnerIds \X Details PROVE after[entry] \in Nat
  <2>1. PICK o \in OwnerIds, d \in Details : entry = <<o, d>>
    OBVIOUS
  <2>2. rows[<<o, d>>] \in Nat /\ rows[<<source, d>>] \in Nat
    BY <1>3
  <2>3. after[entry] = IF o = source THEN 0
                     ELSE IF o = target THEN rows[<<o, d>>] + rows[<<source, d>>]
                     ELSE rows[<<o, d>>]
    BY <1>2, <2>1
  <2> QED
    BY <2>2, <2>3
<1>5. after \in [OwnerIds \X Details -> Nat]
  BY <1>1, <1>4
<1>6. ASSUME NEW o \in OwnerIds \ {source}, NEW d \in Details
      PROVE  /\ rows[<<o, d>>] > 0 => after[<<o, d>>] > 0
             /\ o = target /\ rows[<<source, d>>] > 0 => after[<<o, d>>] > 0
  BY <1>2, <1>3
<1> QED
  BY <1>5, <1>6 DEF after

(* What a profile needs of its owner is there after a link, too.                *)
LEMMA AbsorbKeeps ==
  ASSUME NEW rows, NEW cs \in SUBSET (OwnerIds \X Details), NEW ls \in [OwnerIds \X Details -> Nat],
         DOMAIN rows \subseteq OwnerIds, \A x \in DOMAIN rows : rows[x] \in Persons,
         NEW source \in DOMAIN rows, NEW target \in DOMAIN rows \ {source},
         rows[source].name = rows[target].name,
         NEW o, NEW n, NEW d \in Details, Has(o, n, d, rows, cs, ls)
  PROVE  Has(IF o = source THEN target ELSE o, n, d,
             Absorb(rows, source, target), MoveContacts(cs, source, target),
             MoveLiens(ls, source, target))
<1>0. /\ DOMAIN Absorb(rows, source, target) = DOMAIN rows \ {source}
      /\ \A x \in DOMAIN Absorb(rows, source, target) :
            SameName(Absorb(rows, source, target)[x], rows[x])
  BY AbsorbedOwners
<1> DEFINE to == IF o = source THEN target ELSE o
<1>1. o \in OwnerIds /\ to \in OwnerIds \ {source} /\ target \in OwnerIds \ {source}
      /\ source \in OwnerIds /\ to \in DOMAIN rows \ {source}
  BY DEF Has
<1>2. to \in DOMAIN Absorb(rows, source, target) /\ Absorb(rows, source, target)[to].name = n
  <2>1. rows[to].name = n
    BY DEF Has
  <2> HIDE DEF to
  <2> QED
    BY <1>0, <1>1, <2>1 DEF SameName
<1>3. <<to, d>> \in MoveContacts(cs, source, target)
  <2>1. <<o, d>> \in cs
    BY DEF Has
  <2>2. (IF <<o, d>>[1] = source THEN <<target, <<o, d>>[2]>> ELSE <<o, d>>) = <<to, d>>
    OBVIOUS
  <2> QED
    BY <2>1, <2>2 DEF MoveContacts
<1>4. MoveLiens(ls, source, target)[<<to, d>>] > 0
  BY <1>1, MovedLiens DEF Has
<1> QED
  BY <1>2, <1>3, <1>4 DEF Has

(* Moved contacts are contacts, of owners that are left.                        *)
LEMMA MovedContacts ==
  ASSUME NEW cs \in SUBSET (OwnerIds \X Details), NEW ids \in SUBSET OwnerIds,
         NEW source \in ids, NEW target \in ids \ {source},
         \A c \in cs : c[1] \in ids
  PROVE  \A c \in MoveContacts(cs, source, target) :
             c \in OwnerIds \X Details /\ c[1] \in ids \ {source}
  BY DEF MoveContacts

(* A new owner with the contact and the lien of its profile. *)
LEMMA AddKeeps ==
  ASSUME OwnersInv, NEW p \in Persons, NEW d \in Details, NEW o \in Unused
  PROVE  LET rows == Add(owners, o, p)
         IN  /\ o \in OwnerIds /\ DOMAIN rows = DOMAIN owners \cup {o}
             /\ DOMAIN rows \subseteq OwnerIds /\ \A x \in DOMAIN rows : rows[x] \in Persons
             /\ \A x \in DOMAIN owners : rows[x] = owners[x]
             /\ NewContacts(o, d) \in SUBSET (OwnerIds \X Details)
             /\ \A c \in NewContacts(o, d) : c[1] \in DOMAIN rows
             /\ NewLiens(o, d) \in [OwnerIds \X Details -> Nat]
             /\ Has(o, p.name, d, rows, NewContacts(o, d), NewLiens(o, d))
             /\ \A r \in profiles :
                   Has(r.owner, r.person.name, r.detail, rows, NewContacts(o, d), NewLiens(o, d))
<1> DEFINE rows == Add(owners, o, p)
<1>1. /\ OwnersTyped /\ (\A r \in profiles : Kept(r))
      /\ \A c \in contacts : c[1] \in DOMAIN owners
  BY OwnersInvParts
<1>2. o \in OwnerIds /\ o \notin DOMAIN owners
  BY DEF Unused
<1>3. /\ DOMAIN rows = DOMAIN owners \cup {o} /\ rows[o] = p
      /\ \A x \in DOMAIN owners : rows[x] = owners[x]
  BY <1>2 DEF Add
<1>4. DOMAIN rows \subseteq OwnerIds /\ \A x \in DOMAIN rows : rows[x] \in Persons
  BY <1>1, <1>2, <1>3 DEF OwnersTyped
<1>5. /\ NewContacts(o, d) \in SUBSET (OwnerIds \X Details)
      /\ \A c \in NewContacts(o, d) : c[1] \in DOMAIN rows
      /\ <<o, d>> \in NewContacts(o, d) /\ contacts \subseteq NewContacts(o, d)
  BY <1>1, <1>2, <1>3 DEF NewContacts, OwnersTyped
<1>6. /\ ownerLiens \in [OwnerIds \X Details -> Nat] /\ <<o, d>> \in OwnerIds \X Details
      /\ ownerLiens[<<o, d>>] \in Nat
  BY <1>1, <1>2 DEF OwnersTyped
<1>7. /\ NewLiens(o, d) \in [OwnerIds \X Details -> Nat] /\ NewLiens(o, d)[<<o, d>>] > 0
      /\ \A k \in OwnerIds \X Details : ownerLiens[k] > 0 => NewLiens(o, d)[k] > 0
  BY <1>6 DEF NewLiens
<1>8. ASSUME NEW r \in profiles
      PROVE  Has(r.owner, r.person.name, r.detail, rows, NewContacts(o, d), NewLiens(o, d))
  <2>1. <<r.owner, r.detail>> \in OwnerIds \X Details
    BY <1>1, ProfileFields DEF OwnersTyped
  <2> HIDE DEF rows
  <2> QED
    BY <1>1, <1>3, <1>5, <1>7, <2>1 DEF Has, Kept
<1>9. Has(o, p.name, d, rows, NewContacts(o, d), NewLiens(o, d))
  BY <1>3, <1>5, <1>7 DEF Has
<1> QED
  BY <1>2, <1>3, <1>4, <1>5, <1>7, <1>8, <1>9

(* A profile nobody published before gets an owner of its own.                  *)
LEMMA PublishNewStep ==
  ASSUME OwnersInv, NEW doc \in Documents, NEW p \in Persons, NEW d \in Details,
         PublishNew(doc, p, d)
  PROVE  OwnersInv'
<1>1. PICK o \in Unused :
          /\ owners' = Add(owners, o, p)
          /\ contacts' = NewContacts(o, d)
          /\ ownerLiens' = NewLiens(o, d)
          /\ profiles' = profiles \cup {[document |-> doc, person |-> p,
                                detail |-> d, owner |-> o, linked |-> FALSE]}
          /\ holds' = holds
  BY DEF PublishNew
<1> DEFINE new == [document |-> doc, person |-> p, detail |-> d, owner |-> o, linked |-> FALSE]
<1>2. new \in Profiles /\ new.person = p /\ new.detail = d /\ new.owner = o
  BY AddKeeps DEF Profiles
<1> HIDE DEF new
<1>3. profiles' = profiles \cup {new}
  BY <1>1 DEF new
<1>4. OwnersTyped'
  <2>1. DOMAIN owners' \subseteq OwnerIds /\ \A x \in DOMAIN owners' : owners'[x] \in Persons
    BY <1>1, AddKeeps
  <2>2. profiles' \subseteq Profiles
    BY <1>2, <1>3 DEF OwnersInv, OwnersTyped
  <2>3. contacts' \subseteq OwnerIds \X Details /\ ownerLiens' \in [OwnerIds \X Details -> Nat]
    BY <1>1, AddKeeps
  <2> QED
    BY <2>1, <2>2, <2>3 DEF OwnersTyped
<1>5. \A r \in profiles' : Kept(r)'
  BY <1>1, <1>2, <1>3, AddKeeps DEF Kept
<1>6. /\ \A entry \in holds' : entry[2] \in DOMAIN owners'
      /\ \A c \in contacts' : c[1] \in DOMAIN owners'
  BY <1>1, AddKeeps, OwnersInvParts
<1> QED
  BY <1>4, <1>5, <1>6 DEF OwnersInv, LinkLosesNothing, NoOrphanAfterLink, Kept, Has

(* The owner of the new publication is absorbed by that of the earlier one. *)
LEMMA PublishAgainStep ==
  ASSUME OwnersInv, NEW doc \in Documents, NEW p \in Persons, NEW d \in Details,
         PublishAgain(doc, p, d)
  PROVE  OwnersInv'
<1>1. PICK prev \in Previous(doc, p), o \in Unused :
        LET target == prev.owner
            entry == [prev EXCEPT !.detail = d]
        IN  /\ owners' = Absorb(Add(owners, o, p), o, target)
            /\ contacts' = MoveContacts(NewContacts(o, d), o, target)
            /\ ownerLiens' = MoveLiens(NewLiens(o, d), o, target)
            /\ profiles' = (profiles \ {prev}) \cup {entry}
            /\ holds' = holds
  BY DEF PublishAgain
<1> DEFINE rows == Add(owners, o, p)
           cs == NewContacts(o, d)
           ls == NewLiens(o, d)
           target == prev.owner
           entry == [prev EXCEPT !.detail = d]
<1>2. prev \in profiles /\ prev \in Profiles /\ prev.person = p /\ Kept(prev)
      /\ \A r \in profiles : r \in Profiles /\ Kept(r)
  BY OwnersInvParts DEF Previous, OwnersTyped
<1>3. o \in OwnerIds /\ o \notin DOMAIN owners
  BY DEF Unused
<1>4. /\ DOMAIN rows = DOMAIN owners \cup {o} /\ DOMAIN rows \subseteq OwnerIds
      /\ (\A x \in DOMAIN rows : rows[x] \in Persons)
      /\ (\A x \in DOMAIN owners : rows[x] = owners[x])
      /\ cs \in SUBSET (OwnerIds \X Details) /\ (\A c \in cs : c[1] \in DOMAIN rows)
      /\ ls \in [OwnerIds \X Details -> Nat]
      /\ Has(o, p.name, d, rows, cs, ls)
      /\ \A r \in profiles : Has(r.owner, r.person.name, r.detail, rows, cs, ls)
  BY AddKeeps
<1>5. entry \in Profiles /\ entry.owner = target /\ entry.person = p /\ entry.detail = d
  BY <1>2, ProfileChanged DEF Profiles
<1>6. target \in DOMAIN owners /\ owners[target].name = p.name
  BY <1>2 DEF Kept, Has
<1>7. profiles' = (profiles \ {prev}) \cup {entry} /\ holds' = holds
      /\ owners' = Absorb(rows, o, target) /\ contacts' = MoveContacts(cs, o, target)
      /\ ownerLiens' = MoveLiens(ls, o, target)
  BY <1>1
<1> HIDE DEF rows, cs, ls, target, entry
<1>8. /\ o \in DOMAIN rows /\ target \in DOMAIN rows \ {o} /\ rows[o].name = rows[target].name
      /\ target \in OwnerIds \ {o} /\ DOMAIN rows \ {o} = DOMAIN owners
  BY <1>3, <1>4, <1>6 DEF Has
<1>9. \A r \in profiles' : Kept(r)'
  <2>1. ASSUME NEW r \in profiles PROVE Kept(r)'
    <3>1. r.owner # o /\ r.detail \in Details
      BY <1>2, <1>3, <2>1, ProfileFields DEF Kept, Has
    <3>2. Has(IF r.owner = o THEN target ELSE r.owner, r.person.name, r.detail,
              owners', contacts', ownerLiens')
      BY <1>4, <1>7, <1>8, <2>1, <3>1, AbsorbKeeps
    <3> QED
      BY <3>1, <3>2 DEF Kept
  <2>2. Kept(entry)'
    <3>1. Has(IF o = o THEN target ELSE o, p.name, d, owners', contacts', ownerLiens')
      BY <1>4, <1>7, <1>8, AbsorbKeeps
    <3> QED
      BY <1>5, <3>1 DEF Kept
  <2> QED
    BY <1>7, <2>1, <2>2
<1>10. DOMAIN owners' = DOMAIN owners /\ \A x \in DOMAIN owners' : owners'[x] \in Persons
  BY <1>4, <1>7, <1>8, AbsorbedOwners
<1>11. \A c \in contacts' : c \in OwnerIds \X Details /\ c[1] \in DOMAIN owners
  BY <1>4, <1>7, <1>8, MovedContacts
<1>12. OwnersTyped'
  <2>1. profiles' \subseteq Profiles
    BY <1>2, <1>5, <1>7
  <2>2. ownerLiens' \in [OwnerIds \X Details -> Nat]
    BY <1>3, <1>4, <1>7, <1>8, MovedLiens
  <2> QED
    BY <1>4, <1>10, <1>11, <2>1, <2>2 DEF OwnersTyped
<1>13. \A h \in holds' : h[2] \in DOMAIN owners'
  BY <1>7, <1>10, OwnersInvParts
<1> QED
  BY <1>9, <1>10, <1>11, <1>12, <1>13 DEF OwnersInv, LinkLosesNothing, NoOrphanAfterLink, Kept, Has

(* No property refers to the source of a link. *)
LEMMA LinkStep ==
  ASSUME OwnersInv, NEW r \in profiles, NEW target \in OwnerIds, LinkOwnerProfile(r, target)
  PROVE  OwnersInv'
<1> DEFINE source == r.owner
           linked == [r EXCEPT !.owner = target, !.linked = TRUE]
<1>1. /\ owners' = Absorb(owners, source, target)
      /\ contacts' = MoveContacts(contacts, source, target)
      /\ ownerLiens' = MoveLiens(ownerLiens, source, target)
      /\ profiles' = MoveProfiles(profiles \ {r}, source, target) \cup {linked}
      /\ holds' = holds
      /\ \A h \in holds : h[2] # source
      /\ target \in DOMAIN owners \ {source} /\ owners[target].name = owners[source].name
  BY DEF LinkOwnerProfile, LinkCandidates, Deletable
<1>2. \A q \in profiles : q \in Profiles /\ Kept(q) /\ q.detail \in Details
  BY OwnersInvParts, ProfileFields DEF OwnersTyped
<1>3. source \in DOMAIN owners /\ source \in OwnerIds
  BY <1>2, ProfileFields DEF Kept, Has
<1>4. linked \in Profiles /\ linked.owner = target /\ linked.person = r.person
      /\ linked.detail = r.detail
  BY <1>2, ProfileChanged DEF Profiles
<1> HIDE DEF source, linked
<1>5. OwnersTyped
  BY DEF OwnersInv
<1>6. ASSUME NEW q \in profiles
      PROVE  Has(IF q.owner = source THEN target ELSE q.owner, q.person.name, q.detail,
                 owners', contacts', ownerLiens')
  BY <1>1, <1>2, <1>3, <1>5, <1>6, AbsorbKeeps DEF OwnersTyped, Kept
<1>7. Kept(linked)'
  <2>1. r.owner = source
    BY DEF source
  <2> QED
    BY <1>4, <1>6, <2>1 DEF Kept
<1>8. ASSUME NEW q \in MoveProfiles(profiles \ {r}, source, target)
      PROVE  q \in Profiles /\ Kept(q)'
  <2>1. PICK s \in profiles :
            q = IF s.owner = source THEN [s EXCEPT !.owner = target] ELSE s
    BY <1>8 DEF MoveProfiles
  <2>2. /\ q \in Profiles /\ q.person = s.person /\ q.detail = s.detail
        /\ q.owner = IF s.owner = source THEN target ELSE s.owner
    <3>1. CASE s.owner = source
      BY <1>2, <2>1, <3>1, ProfileChanged DEF Profiles
    <3>2. CASE s.owner # source
      BY <1>2, <2>1, <3>2
    <3> QED
      BY <3>1, <3>2
  <2> QED
    BY <1>6, <2>2 DEF Kept
<1>9. /\ DOMAIN owners' = DOMAIN owners \ {source}
      /\ \A x \in DOMAIN owners' : owners'[x] \in Persons
  BY <1>1, <1>3, <1>5, AbsorbedOwners DEF OwnersTyped
<1>10. \A c \in contacts' : c \in OwnerIds \X Details /\ c[1] \in DOMAIN owners'
  BY <1>1, <1>3, <1>5, <1>9, MovedContacts, OwnersInvParts DEF OwnersTyped
<1>11. OwnersTyped'
  <2>1. profiles' \subseteq Profiles
    BY <1>1, <1>4, <1>8
  <2>2. ownerLiens' \in [OwnerIds \X Details -> Nat]
    BY <1>1, <1>3, <1>5, MovedLiens DEF OwnersTyped
  <2> QED
    BY <1>5, <1>9, <1>10, <2>1, <2>2 DEF OwnersTyped
<1>12. \A h \in holds' : h[2] \in DOMAIN owners'
  BY <1>1, <1>9, OwnersInvParts
<1>13. \A q \in profiles' : Kept(q)'
  BY <1>1, <1>7, <1>8
<1> QED
  BY <1>10, <1>11, <1>12, <1>13 DEF OwnersInv, LinkLosesNothing, NoOrphanAfterLink, Kept, Has

(* A property's report adds owners and fills in addresses. *)
LEMMA PersistStep ==
  ASSUME OwnersInv, NEW h \in Homes, NEW named \in SUBSET Names \ {{}},
         NEW mail \in Mails \cup {NoMail}, NEW pick \in [named -> OwnerIds],
         PersistPropertyOwners(h, named, mail, pick)
  PROVE  OwnersInv'
<1> DEFINE chosen == {pick[n] : n \in named}
           nameOf(o) == CHOOSE n \in named : pick[n] = o
           person(n) == [name |-> n, mail |-> mail]
<1>1. /\ owners' = [o \in DOMAIN owners \cup chosen |->
                CASE o \notin chosen -> owners[o]
                  [] o \in Unused -> person(nameOf(o))
                  [] OTHER -> Coalesced(owners[o], mail)]
      /\ holds' = Relinked(h, chosen)
      /\ UNCHANGED <<profiles, contacts, ownerLiens>>
  BY DEF PersistPropertyOwners
<1>2. chosen \subseteq OwnerIds /\ DOMAIN owners' = DOMAIN owners \cup chosen
  BY <1>1
<1>3. ASSUME NEW o \in DOMAIN owners
      PROVE  owners'[o] \in Persons /\ owners'[o].name = owners[o].name
  <2>1. o \notin Unused /\ owners[o] \in Persons
    BY DEF Unused, OwnersInv, OwnersTyped
  <2>2. owners'[o] = owners[o] \/ owners'[o] = Coalesced(owners[o], mail)
    BY <1>1, <2>1
  <2> QED
    BY <2>1, <2>2, CoalescedName
<1>4. ASSUME NEW o \in chosen, o \notin DOMAIN owners PROVE owners'[o] \in Persons
  <2>1. o \in Unused
    BY <1>2, <1>4 DEF Unused
  <2>2. owners'[o] = person(nameOf(o))
    BY <1>1, <1>4, <2>1
  <2>3. nameOf(o) \in Names
    BY <1>4
  <2> HIDE DEF nameOf
  <2> QED
    BY <2>2, <2>3 DEF Persons
<1> HIDE DEF chosen
<1>5. OwnersTyped'
  BY <1>1, <1>2, <1>3, <1>4 DEF OwnersInv, OwnersTyped
<1>6. \A r \in profiles' : Kept(r)'
  BY <1>1, <1>2, <1>3, OwnersInvParts DEF Kept, Has
<1>7. \A entry \in holds' : entry[2] \in DOMAIN owners'
  <2>1. ASSUME NEW entry \in holds'
        PROVE  (\E old \in holds : entry[2] = old[2]) \/ entry[2] \in chosen
    <3>1. \/ \E old \in holds : entry = IF old[1] = h THEN <<h, old[2], FALSE>> ELSE old
          \/ \E o \in chosen : entry = <<h, o, TRUE>>
      BY <1>1 DEF Relinked
    <3>2. ASSUME NEW old \in holds, entry = IF old[1] = h THEN <<h, old[2], FALSE>> ELSE old
          PROVE  entry[2] = old[2]
      BY <3>2
    <3>3. ASSUME NEW o \in chosen, entry = <<h, o, TRUE>> PROVE entry[2] = o
      BY <3>3
    <3> QED
      BY <3>1, <3>2, <3>3
  <2> QED
    BY <1>2, <2>1, OwnersInvParts
<1>8. \A c \in contacts' : c[1] \in DOMAIN owners'
  BY <1>1, <1>2, OwnersInvParts
<1> QED
  BY <1>5, <1>6, <1>7, <1>8 DEF OwnersInv, LinkLosesNothing, NoOrphanAfterLink, Kept, Has

(* The invariant holds throughout.                                              *)
LEMMA OwnersInvariant == OwnerSpec => []OwnersInv
<1>1. OwnersInv /\ UNCHANGED ownerVars => OwnersInv'
  BY DEF ownerVars, OwnersInv, OwnersTyped, LinkLosesNothing, NoOrphanAfterLink
<1>2. OwnersInv /\ [OwnerNext]_ownerVars => OwnersInv'
  BY <1>1, PublishNewStep, PublishAgainStep, LinkStep, PersistStep DEF OwnerNext
<1> QED
  BY <1>2, OwnersInitial, PTL DEF OwnerSpec

(* Linking, linking again and publishing again in any order leave no row that   *)
(* refers to a deleted owner and lose no contact and no lien of a published     *)
(* profile (confirm_owner_link, _publish_entity, persist_property_owners).      *)
THEOREM LinksAreLossless == OwnerSpec => []LinkLosesNothing
<1>1. OwnersInv => LinkLosesNothing
  BY DEF OwnersInv
<1> QED
  BY <1>1, OwnersInvariant, PTL

(* Only a report that names owners changes who holds a property. *)
LEMMA HoldersTyped ==
  ASSUME OwnersInv, holds \subseteq Homes \X OwnerIds \X BOOLEAN, [OwnerNext]_ownerVars
  PROVE  holds' \subseteq Homes \X OwnerIds \X BOOLEAN
<1>1. ASSUME NEW h \in Homes, NEW named \in SUBSET Names \ {{}}, NEW mail \in Mails \cup {NoMail},
             NEW pick \in [named -> OwnerIds], PersistPropertyOwners(h, named, mail, pick)
      PROVE  holds' \subseteq Homes \X OwnerIds \X BOOLEAN
  <2>1. PICK chosen : chosen = {pick[n] : n \in named}
    OBVIOUS
  <2>2. chosen \subseteq OwnerIds /\ holds' = Relinked(h, chosen)
    BY <1>1, <2>1 DEF PersistPropertyOwners
  <2> SUFFICES ASSUME NEW entry \in holds' PROVE entry \in Homes \X OwnerIds \X BOOLEAN
    OBVIOUS
  <2>3. \/ \E old \in holds : entry = IF old[1] = h THEN <<h, old[2], FALSE>> ELSE old
        \/ \E o \in chosen : entry = <<h, o, TRUE>>
    BY <2>2 DEF Relinked
  <2>4. ASSUME NEW o \in OwnerIds, NEW b \in BOOLEAN
        PROVE  <<h, o, b>> \in Homes \X OwnerIds \X BOOLEAN
    OBVIOUS
  <2>5. TRUE \in BOOLEAN /\ FALSE \in BOOLEAN
    OBVIOUS
  <2>6. ASSUME NEW old \in holds, entry = IF old[1] = h THEN <<h, old[2], FALSE>> ELSE old
        PROVE  entry \in Homes \X OwnerIds \X BOOLEAN
    <3>1. PICK x \in Homes, o \in OwnerIds, b \in BOOLEAN : old = <<x, o, b>>
      BY <2>6
    <3>2. entry = <<h, o, FALSE>> \/ entry = old
      BY <2>6, <3>1
    <3>3. <<h, o, FALSE>> \in Homes \X OwnerIds \X BOOLEAN
      BY <2>4, <2>5
    <3> QED
      BY <3>2, <3>3
  <2>7. ASSUME NEW o \in chosen, entry = <<h, o, TRUE>>
        PROVE  entry \in Homes \X OwnerIds \X BOOLEAN
    <3>1. <<h, o, TRUE>> \in Homes \X OwnerIds \X BOOLEAN
      BY <2>2, <2>4, <2>5
    <3> QED
      BY <2>7, <3>1
  <2> QED
    BY <2>3, <2>6, <2>7
<1>2. ASSUME NEW doc \in Documents, NEW p \in Persons, NEW d \in Details,
             PublishAgain(doc, p, d) \/ PublishNew(doc, p, d)
      PROVE  holds' = holds
  BY <1>2 DEF PublishAgain, PublishNew
<1>3. ASSUME NEW r \in profiles, NEW target \in OwnerIds, LinkOwnerProfile(r, target)
      PROVE  holds' = holds
  BY <1>3 DEF LinkOwnerProfile
<1>4. CASE UNCHANGED ownerVars
  BY <1>4 DEF ownerVars
<1> QED
  BY <1>1, <1>2, <1>3, <1>4 DEF OwnerNext

(* Every row of the owner tables has its type. *)
THEOREM OwnersRowsTyped == OwnerSpec => []OwnerTypeOK
<1> DEFINE Links == holds \subseteq Homes \X OwnerIds \X BOOLEAN
<1>1. OwnerInit => Links
  BY DEF OwnerInit
<1>2. OwnersInv /\ Links /\ [OwnerNext]_ownerVars => Links'
  BY HoldersTyped
<1>3. OwnersInv /\ Links => OwnerTypeOK
  BY DEF OwnersInv, OwnersTyped, OwnerTypeOK
<1> HIDE DEF Links
<1> QED
  BY <1>1, <1>2, <1>3, OwnersInvariant, PTL DEF OwnerSpec

(*****************************************************************************)
(* PropertyIdentity, for any reports, spellings, parcels and decisions.      *)
(*****************************************************************************)

(* A row is made from the evidence of its report: its address never changes,  *)
(* its parcel key is that of the report or missing, and only what is missing  *)
(* is filled in later.                                                       *)
KeyFits(x) == x.key # None => x.apn = x.key[2]

RowMade(p, x) ==
    /\ Street(p) # None
    /\ x.hash = Hash(p) /\ x.street = Street(p)
    /\ x.key \in {None, Key(p)} /\ KeyFits(x)
    /\ Zip(p) # None => x.zip = Zip(p)

Attached(p) == pc[p] \in {"attached", "done"}

RowsMade == \A p \in Reports : row[p] # None => Attached(p) /\ RowMade(p, row[p])

(* A lock is that of an address; an entity that is attached has a property.   *)
Addressed ==
    \A r \in Reports : pc[r] = "locked" \/ r \notin Conservative => Street(r) # None
Housed == \A r \in Reports : pc[r] = "attached" => home[r] \in Reports /\ row[home[r]] # None

(* What a resolution has decided, by whether it makes a row or takes one.     *)
FlagsProperty(c) == c.flag = "none" \/ c.other \in Reports

Making(r, c) ==
    /\ row[r] = None /\ Street(r) # None
    /\ c # None /\ c.key \in {None, Key(r)} /\ FlagsProperty(c)

Inserting(r, c) ==
    /\ row[r] = None /\ RowMade(r, c.seen) /\ c.seen.merged = None
    /\ FlagsProperty(c)

Taking(r, c) ==
    /\ row[c.take] # None /\ HasCause(c.take, r)
    /\ c.seen.key = row[c.take].key /\ RowMade(c.take, c.seen)

Settled(r, c) ==
    /\ c # None /\ c.take \in Reports /\ c.seen \in Rows
    /\ c.take = r => Inserting(r, c)
    /\ c.take # r => Taking(r, c)

Decided == \A r \in Reports : /\ pc[r] = "create" => Making(r, choice[r])
                              /\ pc[r] = "take" => Settled(r, choice[r])

(* What the unique indexes guarantee, of rows that are not committed too. *)
UniqueLive == \A p, q \in Reports : p # q /\ Live(p) /\ Live(q) => ~Collide(row[p], row[q])
UniqueNew ==
    \A s \in Reports : Inserted(s) =>
        /\ \A q \in Reports : Live(q) => ~Collide(choice[s].seen, row[q])
        /\ \A t \in Reports \ {s} : Inserted(t) => ~Collide(choice[s].seen, choice[t].seen)

(* Why a report is attached to the property of p, by the evidence alone. *)
Reason(p, r) ==
    \/ p = r \/ Hash(p) = Hash(r)
    \/ Apn(r) # None /\ Apn(p) = Apn(r)
    \/ /\ None \notin {Street(p), Street(r)}
       /\ ~Differ(Zip(p), Zip(r)) /\ House[Street(p)] = House[Street(r)]
       /\ Closeness[Street(p)][Street(r)] >= 92

Origins == \A r \in Reports : origin[r] # None => Reason(origin[r], r)

IdentityInv == /\ IdentityTypeOK /\ RowsMade /\ Addressed /\ Housed /\ Decided
               /\ UniqueLive /\ UniqueNew /\ Origins

----------------------------------------------------------------------------

(* No report is resolved at first.                                              *)
LEMMA IdentityInitial == IdentityInit => IdentityInv
<1> SUFFICES ASSUME IdentityInit PROVE IdentityInv
  OBVIOUS
<1>1. IdentityTypeOK
  BY IdentityAssumption DEF IdentityInit, IdentityTypeOK, Phases
<1>2. RowsMade /\ Addressed /\ Housed /\ Decided /\ Origins
  BY DEF IdentityInit, RowsMade, Addressed, HasAddress, Housed, Decided, Origins
<1>3. UniqueLive /\ UniqueNew
  BY DEF IdentityInit, UniqueLive, UniqueNew, Live, Inserted
<1> QED
  BY <1>1, <1>2, <1>3 DEF IdentityInv

(* The evidence of a report never changes, and what is derived from it. *)
LEMMA EvidenceStays ==
  ASSUME evidence' = evidence
  PROVE  \A r \in Reports :
            /\ Apn(r)' = Apn(r) /\ Fips(r)' = Fips(r) /\ Street(r)' = Street(r)
            /\ Zip(r)' = Zip(r) /\ Hash(r)' = Hash(r) /\ Key(r)' = Key(r)
            /\ \A x : RowMade(r, x)' <=> RowMade(r, x)
  BY DEF Apn, Fips, Street, Zip, City, Hash, Key, RowMade, KeyFits

(* The fields of what a report says.                                            *)
LEMMA EvidenceTypes ==
  ASSUME IdentityTypeOK, NEW r \in Reports
  PROVE  /\ Apn(r) \in Apns \cup {None} /\ Street(r) \in Streets \cup {None}
         /\ Zip(r) \in Zips \cup {None} /\ City(r) \in Cities \cup {None}
         /\ Key(r) \in ParcelKeys \cup {None}
         /\ Key(r) # None => Apn(r) # None /\ Key(r)[2] = Apn(r)
         /\ Street(r) # None => Hash(r) \in Streets \X (Zips \cup Cities \cup {None})
<1>1. evidence[r] \in [apn : Apns \cup {None}, fips : Counties \cup {None},
                      street : Streets \cup {None}, zip : Zips \cup {None},
                      city : Cities \cup {None}]
  BY IdentityAssumption DEF IdentityTypeOK
<1>2. /\ Apn(r) \in Apns \cup {None} /\ Fips(r) \in Counties \cup {None}
      /\ Street(r) \in Streets \cup {None}
      /\ Zip(r) \in Zips \cup {None} /\ City(r) \in Cities \cup {None}
  BY <1>1 DEF Apn, Fips, Street, Zip, City
<1>3. Key(r) \in ParcelKeys \cup {None} /\ (Key(r) # None => Apn(r) # None /\ Key(r)[2] = Apn(r))
  BY <1>2 DEF Key, ParcelKeys
<1>4. Street(r) # None => Hash(r) \in Streets \X (Zips \cup Cities \cup {None})
  BY <1>2 DEF Hash
<1> QED
  BY <1>2, <1>3, <1>4

(* Two rows collide whichever comes first. *)
LEMMA CollideEither == \A x, y : Collide(x, y) <=> Collide(y, x)
  BY DEF Collide

(* The row that a report makes. *)
LEMMA NewRowMade ==
  ASSUME IdentityTypeOK, NEW r \in Reports, Street(r) # None, choice[r].key \in {None, Key(r)}
  PROVE  NewRow(r) \in Rows /\ RowMade(r, NewRow(r)) /\ NewRow(r).merged = None
<1>1. choice[r].key \in ParcelKeys \cup {None}
  BY EvidenceTypes
<1>2. NewRow(r) \in Rows
  BY <1>1, EvidenceTypes DEF NewRow, Rows
<1>3. KeyFits(NewRow(r))
  BY EvidenceTypes DEF NewRow, KeyFits
<1> QED
  BY <1>2, <1>3 DEF NewRow, RowMade

(* A cause stays one while the row keeps its address and its parcel key.      *)
LEMMA CauseStays ==
  ASSUME evidence' = evidence, NEW p \in Reports, NEW r \in Reports, HasCause(p, r),
         row'[p].hash = row[p].hash, row'[p].key = row[p].key,
         row'[p].street = row[p].street
  PROVE  HasCause(p, r)'
  BY EvidenceStays DEF HasCause, SameKey, FuzzyMerges, Score, Differ

(* So does what a resolution has decided.                                      *)
LEMMA SettledStays ==
  ASSUME evidence' = evidence, NEW r \in Reports, choice'[r] = choice[r],
         Settled(r, choice[r]), row[r] = None => row'[r] = None,
         \A p \in Reports : row[p] # None =>
            /\ row'[p] # None /\ row'[p].hash = row[p].hash
            /\ row'[p].key = row[p].key /\ row'[p].street = row[p].street
  PROVE  Settled(r, choice[r])'
<1>c. PICK c : c = choice[r]
  OBVIOUS
<1>1. ASSUME c.take = r PROVE Inserting(r, choice[r])'
  BY <1>c, <1>1, EvidenceStays DEF Settled, Inserting, FlagsProperty
<1>2. ASSUME c.take # r PROVE Taking(r, choice[r])'
  <2>q. PICK q : q = c.take
    OBVIOUS
  <2>1. /\ q \in Reports /\ row[q] # None /\ HasCause(q, r)
        /\ c.seen.key = row[q].key /\ RowMade(q, c.seen)
    BY <1>c, <1>2, <2>q DEF Settled, Taking
  <2>2. HasCause(q, r)' /\ RowMade(q, c.seen)'
    BY <2>1, CauseStays, EvidenceStays
  <2> QED
    BY <1>c, <2>q, <2>1, <2>2 DEF Taking, RowMade
<1> QED
  BY <1>c, <1>1, <1>2 DEF Settled

(* So is the reason of an attachment. *)
LEMMA ReasonStays ==
  ASSUME evidence' = evidence
  PROVE  \A p, r \in Reports : Reason(p, r)' <=> Reason(p, r)
<1> SUFFICES ASSUME NEW p \in Reports, NEW r \in Reports PROVE Reason(p, r)' <=> Reason(p, r)
  OBVIOUS
<1>1. /\ Apn(p)' = Apn(p) /\ Street(p)' = Street(p) /\ Zip(p)' = Zip(p) /\ Hash(p)' = Hash(p)
      /\ Apn(r)' = Apn(r) /\ Street(r)' = Street(r) /\ Zip(r)' = Zip(r) /\ Hash(r)' = Hash(r)
  BY EvidenceStays
<1> QED
  BY <1>1 DEF Reason, Differ

----------------------------------------------------------------------------
(* A property that matches a resolution's query is one it may take. *)
LEMMA MatchSettled ==
  ASSUME IdentityInv, NEW r \in Reports, NEW p \in Reports, Live(p), ~Attached(r),
         HasCause(p, r), NEW c, c.take = p, c.seen = row[p]
  PROVE  c # None => Settled(r, c)
<1>1. row[p] # None /\ row[p] \in Rows /\ RowMade(p, row[p]) /\ p # r
  BY DEF IdentityInv, IdentityTypeOK, RowsMade, Live
<1> QED
  BY <1>1 DEF Settled, Taking

(* A step of a resolution that only decides keeps the invariant when what it *)
(* decided is right, and, if it inserted a row, no other row collides.       *)
LEMMA DecideStep ==
  ASSUME IdentityInv, NEW r \in Reports, NEW phase \in {"create", "take", "idle", "rejected"},
         NEW c \in Decisions \cup {None},
         Decide(r, phase, c), ~Attached(r),
         phase = "create" => Making(r, c),
         phase = "take" => Settled(r, c),
         phase = "take" /\ c.take = r =>
             /\ \A q \in Reports : Live(q) => ~Collide(c.seen, row[q])
             /\ \A s \in Reports \ {r} : Inserted(s) => ~Collide(c.seen, choice[s].seen)
  PROVE  IdentityInv'
<1> USE DEF IdentityInv, Decide
<1>1. IdentityTypeOK'
  BY DEF IdentityTypeOK, Phases
<1>a. /\ pc' = [pc EXCEPT ![r] = phase] /\ choice' = [choice EXCEPT ![r] = c]
      /\ evidence' = evidence /\ row' = row /\ origin' = origin /\ home' = home
  OBVIOUS
<1>b. pc \in [Reports -> Phases] /\ choice \in [Reports -> Decisions \cup {None}]
  BY DEF IdentityTypeOK
<1>2. RowsMade'
  BY <1>a, <1>b, EvidenceStays DEF RowsMade, Attached
<1>3. Addressed' /\ Housed'
  BY <1>a, <1>b, EvidenceStays DEF Addressed, Housed
<1>4. Decided'
  <2> SUFFICES ASSUME NEW s \in Reports
               PROVE  /\ pc'[s] = "create" => Making(s, choice[s])'
                      /\ pc'[s] = "take" => Settled(s, choice[s])'
    BY DEF Decided
  <2>2. CASE s = r
    <3>1. pc'[s] = phase /\ choice'[s] = c
      BY <1>a, <1>b, <2>2
    <3>2. phase = "take" => Settled(s, choice[s])'
      BY <1>a, <2>2, <3>1, EvidenceStays
      DEF Settled, Inserting, FlagsProperty, Taking, HasCause, SameKey, FuzzyMerges, Score, Differ
    <3>3. phase = "create" => Making(s, choice[s])'
      BY <1>a, <2>2, <3>1, EvidenceStays DEF Making, FlagsProperty
    <3> QED
      BY <3>1, <3>2, <3>3
  <2>3. CASE s # r
    <3>1. pc'[s] = pc[s] /\ choice'[s] = choice[s]
      BY <1>a, <1>b, <2>3
    <3>2. pc[s] = "take" => Settled(s, choice[s])'
      BY <1>a, <3>1, SettledStays DEF Decided
    <3>3. pc[s] = "create" => Making(s, choice[s])'
      BY <1>a, <3>1, EvidenceStays DEF Decided, Making, FlagsProperty
    <3> QED
      BY <3>1, <3>2, <3>3
  <2> QED
    BY <2>2, <2>3
<1>5. UniqueLive'
  BY <1>a DEF UniqueLive, Live, Collide
<1>6. UniqueNew'
  <2>1. \A q \in Reports : Live(q)' <=> Live(q)
    BY <1>a DEF Live
  <2>2. \A s \in Reports \ {r} : /\ choice'[s] = choice[s]
                                /\ Inserted(s)' <=> Inserted(s)
    BY <1>a, <1>b DEF Inserted
  <2>3. /\ choice'[r] = c
        /\ Inserted(r)' <=> phase = "take" /\ c.take = r
    BY <1>a, <1>b DEF Inserted
  <2>4. \A s \in Reports \ {r} : Inserted(s) =>
          /\ \A q \in Reports : Live(q) => ~Collide(choice[s].seen, row[q])
          /\ \A t \in Reports \ {s} : Inserted(t) => ~Collide(choice[s].seen, choice[t].seen)
    BY DEF UniqueNew
  <2>5. \A x, y : Collide(x, y)' <=> Collide(x, y)
    BY DEF Collide
  <2>6. ASSUME NEW s \in Reports, Inserted(s)', NEW q \in Reports, Live(q)'
        PROVE  ~Collide(choice'[s].seen, row'[q])
    BY <1>a, <2>1, <2>2, <2>3, <2>4, <2>6
  <2>7. ASSUME NEW s \in Reports, Inserted(s)', NEW t \in Reports \ {s}, Inserted(t)'
        PROVE  ~Collide(choice'[s].seen, choice'[t].seen)
    <3>1. CASE s = r
      BY <2>2, <2>3, <2>7, <3>1
    <3>2. CASE t = r
      <4>1. ~Collide(c.seen, choice[s].seen)
        BY <2>2, <2>3, <2>7, <3>2
      <4> QED
        BY <2>2, <2>3, <3>2, <4>1, CollideEither, <2>7
    <3>3. CASE s # r /\ t # r
      BY <2>2, <2>4, <2>7, <3>3
    <3> QED
      BY <3>1, <3>2, <3>3
  <2> QED
    BY <2>6, <2>7 DEF UniqueNew, Collide
<1>7. Origins'
  BY <1>a, ReasonStays DEF Origins, IdentityTypeOK
<1> QED
  BY <1>1, <1>2, <1>3, <1>4, <1>5, <1>6, <1>7

(* The steps of a resolution before its commit. *)
LEMMA LockKeeps ==
  ASSUME IdentityInv, NEW r \in Reports, Lock(r)
  PROVE  IdentityInv'
<1> USE DEF IdentityInv
<1>a. /\ pc' = [pc EXCEPT ![r] = "locked"] /\ choice' = choice /\ evidence' = evidence
      /\ row' = row /\ origin' = origin /\ home' = home /\ pc[r] = "idle" /\ Street(r) # None
  BY DEF Lock
<1>b. pc \in [Reports -> Phases]
  BY DEF IdentityTypeOK
<1>1. IdentityTypeOK'
  BY DEF IdentityTypeOK, Lock, Phases
<1>2. RowsMade'
  BY <1>a, <1>b, EvidenceStays DEF RowsMade, Attached
<1>3. Addressed' /\ Housed'
  BY <1>a, <1>b, EvidenceStays DEF Addressed, Housed
<1>4. Decided'
  <2> SUFFICES ASSUME NEW s \in Reports
               PROVE  /\ pc'[s] = "create" => Making(s, choice[s])'
                      /\ pc'[s] = "take" => Settled(s, choice[s])'
    BY DEF Decided
  <2>1. pc'[s] \in {"create", "take"} => pc'[s] = pc[s]
    BY <1>a, <1>b
  <2>2. pc[s] = "create" => Making(s, choice[s])'
    BY <1>a, EvidenceStays DEF Decided, Making, FlagsProperty
  <2>3. pc[s] = "take" => Settled(s, choice[s])'
    BY <1>a, SettledStays DEF Decided
  <2> QED
    BY <2>1, <2>2, <2>3
<1>5. UniqueLive' /\ UniqueNew'
  <2>1. \A s \in Reports : Inserted(s)' <=> Inserted(s)
    BY <1>a, <1>b DEF Inserted
  <2>2. \A s \in Reports : Live(s)' <=> Live(s)
    BY <1>a DEF Live
  <2> QED
    BY <1>a, <2>1, <2>2 DEF UniqueLive, UniqueNew, Collide
<1>6. Origins'
  BY <1>a, ReasonStays DEF Origins, IdentityTypeOK
<1> QED
  BY <1>1, <1>2, <1>3, <1>4, <1>5, <1>6

(* A resolution that attaches to a property already there. *)
LEMMA TakeKeeps ==
  ASSUME IdentityInv, NEW r \in Reports, NEW p \in Reports, ~Attached(r), Live(p),
         HasCause(p, r), Take(r, p)
  PROVE  IdentityInv'
<1> DEFINE c == [take |-> p, seen |-> row[p], key |-> None, flag |-> "none", other |-> None]
<1>1. row[p] \in Rows /\ p # r
  BY DEF IdentityInv, IdentityTypeOK, RowsMade, Live
<1>2. c \in Decisions /\ c.take = p /\ c.seen = row[p]
  BY <1>1 DEF Decisions
<1>3. c # None
  BY <1>2, NoneAssumption
<1>4. Settled(r, c)
  BY <1>1, <1>2, <1>3, MatchSettled
<1>5. Decide(r, "take", c)
  BY DEF Take
<1> HIDE DEF c
<1> QED
  BY <1>1, <1>2, <1>4, <1>5, DecideStep

(* A resolution that will make a row. *)
LEMMA InsertKeeps ==
  ASSUME IdentityInv, NEW r \in Reports, ~Attached(r), Street(r) # None,
         NEW key \in {None, Key(r)},
         NEW flag \in {"none", "conflict", "duplicate"}, NEW other \in Reports \cup {None},
         Insert(r, key, flag, other), flag = "none" \/ other \in Reports
  PROVE  IdentityInv'
<1> DEFINE c == [take |-> None, seen |-> None, key |-> key, flag |-> flag, other |-> other]
<1>1. row[r] = None
  BY DEF IdentityInv, RowsMade
<1>2. c \in Decisions /\ c.key = key /\ c.take = None /\ FlagsProperty(c)
  BY EvidenceTypes DEF Decisions, IdentityInv, FlagsProperty
<1>3. c # None
  BY <1>2, NoneAssumption
<1>4. Making(r, c)
  BY <1>1, <1>2, <1>3 DEF Making
<1>5. Decide(r, "create", c)
  BY DEF Insert
<1> HIDE DEF c
<1> QED
  BY <1>2, <1>4, <1>5, DecideStep

(* A property the query finds is one with a cause. *)
LEMMA MatchCause ==
  ASSUME IdentityInv, NEW r \in Reports \ Conservative, NEW p \in Matches(r)
  PROVE  p \in Reports /\ Live(p) /\ HasCause(p, r)
  BY DEF Matches, HasCause

(* A query makes a choice for a report, and has a cause for it.                 *)
LEMMA QueryKeeps ==
  ASSUME IdentityInv, NEW r \in Reports,
         QueryMatch(r) \/ QueryFuzzy(r) \/ QueryNew(r) \/ QueryExact(r)
  PROVE  IdentityInv'
<1>0. ~Attached(r) /\ Street(r) # None
  BY DEF Attached, QueryMatch, QueryFuzzy, QueryNew, QueryExact, IdentityInv, Addressed
<1>1. ASSUME QueryMatch(r) PROVE IdentityInv'
  <2>1. PICK p \in Matches(r) : IF SameKey(p, r) /\ ConflictsWith(p, r)
                                THEN Insert(r, None, "conflict", p)
                                ELSE Take(r, p)
    BY <1>1 DEF QueryMatch
  <2>2. p \in Reports /\ Live(p) /\ HasCause(p, r)
    BY <1>1, MatchCause DEF QueryMatch
  <2>3. CASE Insert(r, None, "conflict", p)
    BY <1>0, <2>2, <2>3, InsertKeeps
  <2>4. CASE Take(r, p)
    BY <1>0, <2>2, <2>4, TakeKeeps
  <2> QED
    BY <2>1, <2>3, <2>4
<1>2. ASSUME QueryFuzzy(r) PROVE IdentityInv'
  <2>1. PICK p \in FuzzyDuplicates(r) :
          IF FuzzyMerges(p, r) THEN Take(r, p) ELSE Insert(r, Key(r), "duplicate", p)
    BY <1>2 DEF QueryFuzzy
  <2>2. p \in Reports /\ Live(p)
    BY DEF FuzzyDuplicates, FuzzyCandidates
  <2>3. ASSUME FuzzyMerges(p, r), Take(r, p) PROVE IdentityInv'
    <3>1. HasCause(p, r)
      BY <1>2, <2>3 DEF QueryFuzzy, FuzzyDuplicates, FuzzyCandidates, HasCause, Live,
         IdentityInv, RowsMade, RowMade, Differ
    <3> QED
      BY <1>0, <2>2, <2>3, <3>1, TakeKeeps
  <2>4. CASE Insert(r, Key(r), "duplicate", p)
    BY <1>0, <2>2, <2>4, InsertKeeps
  <2> QED
    BY <2>1, <2>3, <2>4
<1>3. ASSUME QueryNew(r) PROVE IdentityInv'
  BY <1>0, <1>3, InsertKeeps DEF QueryNew
<1>4. ASSUME QueryExact(r) PROVE IdentityInv'
  <2>1. CASE Insert(r, Key(r), "none", None)
    BY <1>0, <2>1, InsertKeeps
  <2>2. ASSUME NEW p \in Matches(r), Agrees(p, r), Take(r, p) PROVE IdentityInv'
    <3>1. p \in Reports /\ Live(p) /\ (row[p].hash = Hash(r) \/ SameKey(p, r))
      BY DEF Matches
    <3>2. KeyFits(row[p]) /\ row[p].street = Street(r) /\ ~Differ(row[p].apn, Apn(r))
      BY <2>2, <3>1 DEF IdentityInv, RowsMade, RowMade, Live, Agrees
    <3>3. row[p].key # None => row[p].key[2] \in Apns
      BY <3>1, EvidenceTypes DEF IdentityInv, IdentityTypeOK, Rows, ParcelKeys, Live
    <3>4. HasCause(p, r)
      BY <1>0, <1>4, <3>1, <3>2, <3>3, IdentityAssumption
      DEF QueryExact, KeyFits, Differ, HasCause
    <3> QED
      BY <1>0, <2>2, <3>1, <3>4, TakeKeeps
  <2> QED
    BY <1>4, <2>1, <2>2 DEF QueryExact
<1> QED
  BY <1>1, <1>2, <1>3, <1>4

(* The insert succeeds when no row and no uncommitted row collides. *)
LEMMA CreateKeeps ==
  ASSUME IdentityInv, NEW r \in Reports, Create(r)
  PROVE  IdentityInv'
<1> DEFINE c == [choice[r] EXCEPT !.take = r, !.seen = NewRow(r)]
<1>1. /\ row[r] = None /\ choice[r] # None /\ choice[r].key \in {None, Key(r)}
      /\ FlagsProperty(choice[r]) /\ Street(r) # None
  BY DEF IdentityInv, Decided, Create, Making
<1>2. NewRow(r) \in Rows /\ RowMade(r, NewRow(r)) /\ NewRow(r).merged = None
  BY <1>1, NewRowMade DEF IdentityInv
<1>3. choice[r] \in Decisions
  BY <1>1 DEF IdentityInv, IdentityTypeOK
<1>4. c \in Decisions /\ c.take = r /\ c.seen = NewRow(r) /\ FlagsProperty(c)
  BY <1>1, <1>2, <1>3 DEF Decisions, FlagsProperty
<1>5. Decide(r, "take", c) /\ ~Attached(r)
  BY DEF Create, Attached
<1> HIDE DEF c
<1>6. Settled(r, c)
  BY <1>1, <1>2, <1>4, NoneAssumption DEF Settled, Inserting
<1>7. /\ \A q \in Reports : Live(q) => ~Collide(c.seen, row[q])
      /\ \A s \in Reports \ {r} : Inserted(s) => ~Collide(c.seen, choice[s].seen)
  BY <1>4 DEF Create, Waits, Clashes
<1> QED
  BY <1>4, <1>5, <1>6, <1>7, DecideStep

(* An attempt that is given up attaches nothing.                                *)
LEMMA GivenUpKeeps ==
  ASSUME IdentityInv, NEW r \in Reports,
         CreateLost(r) \/ CreateFails(r) \/ Rollback(r) \/ Refuse(r) \/ FindParcel(r)
  PROVE  IdentityInv'
<1>1. ~Attached(r)
  BY DEF Attached, InTransaction, CreateLost, CreateFails, Rollback, Refuse, FindParcel
<1>2. ASSUME CreateLost(r) PROVE IdentityInv'
  <2>1. PICK p \in Matches(r) : Take(r, p)
    BY <1>2 DEF CreateLost
  <2>2. p \in Reports /\ Live(p) /\ HasCause(p, r)
    BY <1>2, MatchCause DEF CreateLost
  <2> QED
    BY <1>1, <2>1, <2>2, TakeKeeps
<1>3. ASSUME Decide(r, "idle", None) \/ Decide(r, "rejected", None) PROVE IdentityInv'
  BY <1>1, <1>3, DecideStep
<1>4. ASSUME FindParcel(r), NEW p \in Reports, Live(p), SameKey(p, r), Take(r, p)
      PROVE  IdentityInv'
  <2>1. HasCause(p, r)
    BY <1>4 DEF FindParcel, HasCause, SameKey, Key
  <2> QED
    BY <1>1, <1>4, <2>1, TakeKeeps
<1> QED
  BY <1>2, <1>3, <1>4 DEF CreateFails, Rollback, Refuse, FindParcel

----------------------------------------------------------------------------
(* The commit of a resolution. *)

(* Filling what is missing in a row leaves it one that its report could have  *)
(* made, though it goes by an earlier state of the row.                       *)
LEMMA FilledRow ==
  ASSUME IdentityTypeOK, NEW r \in Reports, NEW p \in Reports,
         NEW x \in Rows, NEW seen \in Rows, seen.key = x.key,
         RowMade(p, x), RowMade(p, seen), NEW u, u = Filled(x, seen, r)
  PROVE  /\ u \in Rows /\ RowMade(p, u)
         /\ u.hash = x.hash /\ u.key = x.key /\ u.street = x.street /\ u.merged = x.merged
<1>1. Zip(r) \in Zips \cup {None} /\ Apn(r) \in Apns \cup {None}
  BY EvidenceTypes
<1>z. PICK z : z = IF seen.zip = None /\ Zip(r) # None THEN Zip(r) ELSE x.zip
  OBVIOUS
<1>a. PICK a : a = IF seen.apn = None /\ Apn(r) # None THEN Apn(r) ELSE x.apn
  OBVIOUS
<1>u. u = [x EXCEPT !.zip = z, !.apn = a]
  BY <1>z, <1>a DEF Filled
<1>t. z \in Zips \cup {None} /\ a \in Apns \cup {None}
  BY <1>1, <1>z, <1>a DEF Rows
<1>2. /\ u \in Rows /\ u.hash = x.hash /\ u.key = x.key
      /\ u.street = x.street /\ u.merged = x.merged /\ u.zip = z /\ u.apn = a
  BY <1>u, <1>t DEF Rows
<1>3. KeyFits(u)
  <2>1. x.key \in ParcelKeys \cup {None}
    BY DEF Rows
  <2>2. x.key # None => x.key[2] # None
    BY <2>1, IdentityAssumption DEF ParcelKeys
  <2> QED
    BY <1>2, <1>a, <2>2 DEF RowMade, KeyFits
<1> QED
  BY <1>2, <1>3, <1>z DEF RowMade

(* What a commit leaves of the row that it updates. *)
LEMMA UpdatedRow ==
  ASSUME IdentityInv, NEW r \in Reports, pc[r] = "take",
         NEW p, p = choice[r].take,
         NEW now, now = IF p = r THEN choice[r].seen ELSE row[p]
  PROVE  /\ p \in Reports /\ now \in Rows /\ Updated(r) \in Rows
         /\ Updated(r).hash = now.hash /\ Updated(r).key = now.key
         /\ Updated(r).street = now.street /\ Updated(r).merged = now.merged
         /\ RowMade(p, Updated(r))
<1>c. PICK c : c = choice[r]
  OBVIOUS
<1>1. Settled(r, c) /\ p \in Reports
  BY <1>c DEF IdentityInv, Decided, Settled
<1>2. /\ now \in Rows /\ RowMade(p, now)
      /\ c.seen \in Rows /\ RowMade(p, c.seen) /\ c.seen.key = now.key
  BY <1>c, <1>1 DEF IdentityInv, IdentityTypeOK, RowsMade, Settled, Inserting, Taking
<1>3. CASE r \in Conservative
  BY <1>c, <1>1, <1>2, <1>3 DEF Updated
<1>4. CASE r \notin Conservative
  <2>u. PICK u : u = Filled(now, c.seen, r)
    OBVIOUS
  <2>1. /\ u \in Rows /\ RowMade(p, u)
        /\ u.hash = now.hash /\ u.key = now.key
        /\ u.street = now.street /\ u.merged = now.merged
    BY <1>1, <1>2, <2>u, FilledRow DEF IdentityInv
  <2>2. Updated(r) = [u EXCEPT !.archived = IF c.seen.archived THEN FALSE ELSE @]
    BY <1>c, <1>4, <2>u DEF Updated
  <2>3. c.seen.archived \in BOOLEAN /\ u.archived \in BOOLEAN
    BY <1>2, <2>1 DEF Rows
  <2>4. /\ Updated(r) \in Rows /\ Updated(r).zip = u.zip /\ Updated(r).apn = u.apn
        /\ Updated(r).hash = u.hash /\ Updated(r).key = u.key
        /\ Updated(r).street = u.street /\ Updated(r).merged = u.merged
    BY <2>1, <2>2, <2>3 DEF Rows
  <2>5. RowMade(p, Updated(r))
    BY <2>1, <2>4 DEF RowMade, KeyFits
  <2> QED
    BY <1>1, <1>2, <2>1, <2>4, <2>5
<1> QED
  BY <1>3, <1>4

(* A commit makes the row or updates it, and attaches the report.               *)
LEMMA CommitKeeps ==
  ASSUME IdentityInv, NEW r \in Reports, Commit(r)
  PROVE  IdentityInv'
<1>p. PICK p : p = choice[r].take
  OBVIOUS
<1>n. PICK now : now = IF p = r THEN choice[r].seen ELSE row[p]
  OBVIOUS
<1>u. PICK u : u = Updated(r)
  OBVIOUS
<1>z. PICK z : z = IF r \in Conservative THEN "attached" ELSE "done"
  OBVIOUS
<1>a. /\ pc[r] = "take" /\ pc' = [pc EXCEPT ![r] = z] /\ z \in {"attached", "done"}
      /\ choice' = [choice EXCEPT ![r] = None] /\ evidence' = evidence
      /\ row' = [row EXCEPT ![p] = u] /\ origin' = [origin EXCEPT ![r] = p]
      /\ home' = [home EXCEPT ![r] = p]
  BY <1>p, <1>u, <1>z DEF Commit
<1>b. /\ pc \in [Reports -> Phases] /\ choice \in [Reports -> Decisions \cup {None}]
      /\ row \in [Reports -> Rows \cup {None}]
      /\ origin \in [Reports -> Reports \cup {None}]
      /\ home \in [Reports -> Reports \cup {None}]
  BY DEF IdentityInv, IdentityTypeOK
<1>c. /\ p \in Reports /\ now \in Rows /\ u \in Rows
      /\ u.hash = now.hash /\ u.key = now.key
      /\ u.street = now.street /\ u.merged = now.merged
      /\ RowMade(p, u)
  BY <1>a, <1>p, <1>n, <1>u, UpdatedRow
<1>d. Settled(r, choice[r]) /\ choice[r] \in Decisions
  BY <1>a, <1>b DEF IdentityInv, Decided, Settled
<1>e. /\ p = r => now = choice[r].seen /\ row[r] = None /\ now.merged = None
      /\ p # r => now = row[p] /\ row[p] # None /\ HasCause(p, r)
      /\ p # r => RowMade(p, row[p]) /\ Attached(p)
      /\ u # None
  BY <1>c, <1>d, <1>p, <1>n, NoneAssumption DEF Settled, Inserting, Taking, IdentityInv, RowsMade
<1>f. /\ row'[p] = u /\ \A q \in Reports : q # p => row'[q] = row[q]
      /\ pc'[r] = z /\ choice'[r] = None
      /\ \A q \in Reports : q # r => pc'[q] = pc[q] /\ choice'[q] = choice[q]
  BY <1>a, <1>b, <1>c
<1>1. IdentityTypeOK'
  <2>1. flagged' \subseteq {"conflict", "duplicate"} \X Reports \X Reports
    <3>1. ASSUME p = r PROVE Flags(r) \subseteq {"conflict", "duplicate"} \X Reports \X Reports
      <4>1. FlagsProperty(choice[r])
        BY <1>d, <1>p, <3>1 DEF Settled, Inserting
      <4> QED
        BY <4>1 DEF Flags, FlagsProperty
    <3> QED
      BY <1>p, <3>1 DEF IdentityInv, IdentityTypeOK, Commit
  <2>2. pc' \in [Reports -> Phases] /\ choice' \in [Reports -> Decisions \cup {None}]
    BY <1>a, <1>b DEF Phases
  <2>3. row' \in [Reports -> Rows \cup {None}]
    BY <1>a, <1>b, <1>c
  <2>4. /\ origin' \in [Reports -> Reports \cup {None}]
        /\ home' \in [Reports -> Reports \cup {None}]
    BY <1>a, <1>b, <1>c
  <2> QED
    BY <2>1, <2>2, <2>3, <2>4 DEF IdentityInv, IdentityTypeOK, Commit
<1>2. RowsMade'
  <2> SUFFICES ASSUME NEW q \in Reports, row'[q] # None
               PROVE  Attached(q)' /\ RowMade(q, row[q])'
    BY DEF RowsMade
  <2>1. RowMade(q, row'[q]) /\ Attached(q)'
    BY <1>a, <1>c, <1>e, <1>f DEF IdentityInv, RowsMade, Attached
  <2> QED
    BY <1>a, <2>1, EvidenceStays DEF RowMade, KeyFits
<1>r. \A q \in Reports : row[q] # None =>
        /\ row'[q] # None /\ row'[q].hash = row[q].hash
        /\ row'[q].key = row[q].key /\ row'[q].street = row[q].street
  BY <1>c, <1>e, <1>f
<1>3. Addressed' /\ Housed'
  <2>1. ASSUME NEW s \in Reports, pc'[s] = "attached"
        PROVE  home'[s] \in Reports /\ row'[home'[s]] # None
    <3>1. CASE s = r
      BY <1>a, <1>b, <1>c, <1>e, <1>f, <3>1
    <3>2. CASE s # r
      BY <1>a, <1>b, <1>f, <1>r, <2>1, <3>2 DEF IdentityInv, Housed
    <3> QED
      BY <3>1, <3>2
  <2>2. Addressed'
    BY <1>a, <1>f, EvidenceStays DEF IdentityInv, Addressed
  <2> QED
    BY <2>1, <2>2 DEF Housed
<1>4. Decided'
  <2> SUFFICES ASSUME NEW s \in Reports \ {r}
               PROVE  /\ pc'[s] = "create" => Making(s, choice[s])'
                      /\ pc'[s] = "take" => Settled(s, choice[s])'
    BY <1>a, <1>f DEF Decided
  <2>1. pc'[s] = pc[s] /\ choice'[s] = choice[s]
    BY <1>f
  <2>2. pc[s] \in {"create", "take"} => row'[s] = row[s]
    BY <1>e, <1>f DEF Attached
  <2>3. ASSUME pc[s] = "create" PROVE Making(s, choice[s])'
    <3>1. Making(s, choice[s])
      BY <2>3 DEF IdentityInv, Decided
    <3> QED
      BY <1>a, <2>1, <2>2, <2>3, <3>1, EvidenceStays DEF Making, FlagsProperty
  <2>4. ASSUME pc[s] = "take" PROVE Settled(s, choice[s])'
    <3>1. Settled(s, choice[s])
      BY <2>4 DEF IdentityInv, Decided
    <3> QED
      BY <1>a, <1>r, <2>1, <2>2, <2>4, <3>1, SettledStays
  <2> QED
    BY <2>1, <2>3, <2>4
<1>5. UniqueLive' /\ UniqueNew'
  <2>1. \A s \in Reports : Inserted(s)' => s # r /\ Inserted(s) /\ choice'[s] = choice[s]
    BY <1>a, <1>f DEF Inserted
  <2>2. \A q \in Reports \ {p} : row'[q] = row[q] /\ (Live(q)' => Live(q))
    BY <1>f DEF Live
  <2>3. /\ \A x : Collide(x, u) <=> Collide(x, now)
        /\ \A x : Collide(u, x) <=> Collide(now, x)
    BY <1>c DEF Collide
  <2>4. ASSUME p = r
        PROVE  /\ \A q \in Reports : Live(q) => ~Collide(now, row[q])
               /\ \A t \in Reports \ {r} : Inserted(t) => ~Collide(now, choice[t].seen)
    <3>1. Inserted(r)
      BY <1>a, <1>p, <2>4 DEF Inserted
    <3> QED
      BY <1>e, <1>n, <2>4, <3>1 DEF IdentityInv, UniqueNew
  <2>5. ASSUME p # r, Live(p)'
        PROVE  /\ \A q \in Reports \ {p} : Live(q) => ~Collide(now, row[q])
               /\ \A t \in Reports : Inserted(t) => ~Collide(now, choice[t].seen)
    <3>1. Live(p)
      BY <1>c, <1>e, <1>f, <2>5 DEF Live
    <3> QED
      BY <1>c, <1>e, <2>5, <3>1, CollideEither DEF IdentityInv, UniqueNew, UniqueLive
  <2>6. UniqueLive'
    <3>1. ASSUME NEW x \in Reports, NEW y \in Reports, x # y, Live(x)', Live(y)'
          PROVE  ~Collide(row'[x], row'[y])
      <4>1. CASE x = p
        BY <1>e, <1>f, <2>2, <2>3, <2>4, <2>5, <3>1, <4>1
      <4>2. CASE y = p
        BY <1>e, <1>f, <2>2, <2>3, <2>4, <2>5, <3>1, <4>2, CollideEither
      <4>3. CASE x # p /\ y # p
        BY <2>2, <3>1, <4>3 DEF IdentityInv, UniqueLive
      <4> QED
        BY <4>1, <4>2, <4>3
    <3> QED
      BY <3>1 DEF UniqueLive, Collide
  <2>7. UniqueNew'
    <3>1. ASSUME NEW s \in Reports, Inserted(s)', NEW q \in Reports, Live(q)'
          PROVE  ~Collide(choice'[s].seen, row'[q])
      <4>1. CASE q = p
        <5>1. ~Collide(now, choice[s].seen)
          BY <2>1, <2>4, <2>5, <3>1, <4>1
        <5> QED
          BY <1>f, <2>1, <2>3, <3>1, <4>1, <5>1, CollideEither
      <4>2. CASE q # p
        BY <2>1, <2>2, <3>1, <4>2 DEF IdentityInv, UniqueNew
      <4> QED
        BY <4>1, <4>2
    <3>2. ASSUME NEW s \in Reports, Inserted(s)', NEW t \in Reports \ {s}, Inserted(t)'
          PROVE  ~Collide(choice'[s].seen, choice'[t].seen)
      BY <2>1, <3>2 DEF IdentityInv, UniqueNew
    <3> QED
      BY <3>1, <3>2 DEF UniqueNew, Collide
  <2> QED
    BY <2>6, <2>7
<1>6. Origins'
  <2>1. Reason(p, r)
    <3>1. CASE p # r
      <4>1. RowMade(p, row[p]) /\ HasCause(p, r)
        BY <1>e, <3>1
      <4>2. ASSUME SameKey(p, r) PROVE Apn(r) # None /\ Apn(p) = Apn(r)
        <5>1. Key(p) = Key(r) /\ Key(r) # None
          BY <4>1, <4>2 DEF RowMade, SameKey
        <5> QED
          BY <1>c, <5>1, EvidenceTypes DEF IdentityInv
      <4>3. Street(p) # None /\ row[p].hash = Hash(p) /\ row[p].street = Street(p)
        BY <4>1 DEF RowMade
      <4>4. ASSUME FuzzyMerges(p, r), ~Differ(Zip(p), Zip(r)), Street(r) # None PROVE Reason(p, r)
        BY <4>3, <4>4 DEF FuzzyMerges, Score, Reason
      <4>5. r \notin Conservative => Street(r) # None
        BY DEF IdentityInv, Addressed
      <4> QED
        BY <4>1, <4>2, <4>3, <4>4, <4>5 DEF HasCause, Reason
    <3> QED
      BY <3>1 DEF Reason
  <2>2. \A s \in Reports : origin'[s] = IF s = r THEN p ELSE origin[s]
    BY <1>a, <1>b
  <2> QED
    BY <1>a, <1>b, <1>c, <2>1, <2>2, ReasonStays DEF Origins, IdentityInv
<1> QED
  BY <1>1, <1>2, <1>3, <1>4, <1>5, <1>6 DEF IdentityInv

----------------------------------------------------------------------------
(* Operators change whether a row is archived and where it points, a          *)
(* publication fills what is missing; a pointer is cleared only where the     *)
(* indexes admit the row.                                                     *)
Edited(p, x) ==
    /\ evidence' = evidence /\ choice' = choice /\ origin' = origin
    /\ \A r \in Reports : pc'[r] = pc[r] \/ (pc[r] = "attached" /\ pc'[r] = "done")
    /\ \A r \in Reports : home'[r] = home[r] \/ (home'[r] \in Reports /\ row[home'[r]] # None)
    /\ row[p] # None /\ x # None
    /\ row' = [row EXCEPT ![p] = x]
    /\ x.hash = row[p].hash /\ x.key = row[p].key /\ x.street = row[p].street
    /\ RowMade(p, x)
    /\ x.merged = None => Live(p) \/ Unhindered(p)

(* Such a step changes no address and no parcel key.                          *)
LEMMA EditKeeps ==
  ASSUME IdentityInv, IdentityTypeOK', NEW p \in Reports, NEW x, Edited(p, x)
  PROVE  IdentityInv'
<1>a. /\ evidence' = evidence /\ choice' = choice /\ origin' = origin
      /\ row[p] # None /\ x # None /\ RowMade(p, x)
  BY DEF Edited
<1>b. /\ row'[p] = x /\ \A q \in Reports : q # p => row'[q] = row[q]
  BY DEF Edited, IdentityInv, IdentityTypeOK
<1>c. /\ x.hash = row[p].hash /\ x.key = row[p].key /\ x.street = row[p].street
      /\ x.merged = None => Live(p) \/ Unhindered(p)
  BY DEF Edited
<1>p. \A r \in Reports : /\ Attached(r) => Attached(r)'
                         /\ (pc[r] = "take") <=> (pc'[r] = "take")
                         /\ pc'[r] \in {"create", "locked", "attached"} => pc'[r] = pc[r]
  BY DEF Edited, Attached
<1>r. \A q \in Reports : row[q] # None =>
        /\ row'[q] # None /\ row'[q].hash = row[q].hash
        /\ row'[q].key = row[q].key /\ row'[q].street = row[q].street
  BY <1>a, <1>b, <1>c
<1>2. RowsMade'
  <2> SUFFICES ASSUME NEW q \in Reports, row'[q] # None
               PROVE  Attached(q)' /\ RowMade(q, row[q])'
    BY DEF RowsMade
  <2>1. Attached(q)' /\ RowMade(q, row'[q])
    BY <1>a, <1>b, <1>p DEF IdentityInv, RowsMade
  <2> QED
    BY <1>a, <2>1, EvidenceStays DEF RowMade, KeyFits
<1>3. Addressed' /\ Housed'
  <2>1. Addressed'
    BY <1>a, <1>p, EvidenceStays DEF IdentityInv, Addressed
  <2>2. ASSUME NEW s \in Reports, pc'[s] = "attached"
        PROVE  home'[s] \in Reports /\ row'[home'[s]] # None
    <3>1. home[s] \in Reports /\ row[home[s]] # None
      BY <1>p, <2>2 DEF IdentityInv, Housed
    <3>2. home'[s] \in Reports /\ row[home'[s]] # None
      BY <3>1 DEF Edited
    <3> QED
      BY <1>r, <3>2
  <2> QED
    BY <2>1, <2>2 DEF Housed
<1>4. Decided'
  <2> SUFFICES ASSUME NEW s \in Reports
               PROVE  /\ pc'[s] = "create" => Making(s, choice[s])'
                      /\ pc'[s] = "take" => Settled(s, choice[s])'
    BY DEF Decided
  <2>1. row[s] = None => row'[s] = None
    BY <1>a, <1>b
  <2>2. ASSUME pc'[s] = "create" PROVE Making(s, choice[s])'
    <3>1. Making(s, choice[s])
      BY <1>p, <2>2 DEF IdentityInv, Decided
    <3> QED
      BY <1>a, <2>1, <3>1, EvidenceStays DEF Making, FlagsProperty
  <2>3. ASSUME pc'[s] = "take" PROVE Settled(s, choice[s])'
    <3>1. Settled(s, choice[s])
      BY <1>p, <2>3 DEF IdentityInv, Decided
    <3> QED
      BY <1>a, <1>r, <2>1, <3>1, SettledStays
  <2> QED
    BY <2>2, <2>3
<1>5. UniqueLive' /\ UniqueNew'
  <2>1. /\ \A y : Collide(y, x) <=> Collide(y, row[p])
        /\ \A y : Collide(x, y) <=> Collide(row[p], y)
    BY <1>c DEF Collide
  <2>2. \A q \in Reports \ {p} : row'[q] = row[q] /\ (Live(q)' <=> Live(q))
    BY <1>b DEF Live
  <2>3. \A s \in Reports : Inserted(s)' <=> Inserted(s)
    BY <1>a, <1>p DEF Inserted
  <2>4. ASSUME Live(p)'
        PROVE  /\ \A q \in Reports \ {p} : Live(q) => ~Collide(row[p], row[q])
               /\ \A s \in Reports : Inserted(s) => ~Collide(row[p], choice[s].seen)
    <3>1. Live(p) \/ Unhindered(p)
      BY <1>b, <1>c, <2>4 DEF Live
    <3>2. CASE Live(p)
      BY <3>2, CollideEither DEF IdentityInv, UniqueLive, UniqueNew
    <3>3. CASE Unhindered(p)
      BY <3>3 DEF Unhindered
    <3> QED
      BY <3>1, <3>2, <3>3
  <2>5. UniqueLive'
    <3>1. ASSUME NEW y \in Reports, NEW z \in Reports, y # z, Live(y)', Live(z)'
          PROVE  ~Collide(row'[y], row'[z])
      <4>1. CASE y = p
        BY <1>b, <2>1, <2>2, <2>4, <3>1, <4>1
      <4>2. CASE z = p
        BY <1>b, <2>1, <2>2, <2>4, <3>1, <4>2, CollideEither
      <4>3. CASE y # p /\ z # p
        BY <2>2, <3>1, <4>3 DEF IdentityInv, UniqueLive
      <4> QED
        BY <4>1, <4>2, <4>3
    <3> QED
      BY <3>1 DEF UniqueLive, Collide
  <2>6. UniqueNew'
    <3>1. ASSUME NEW s \in Reports, Inserted(s), NEW q \in Reports, Live(q)'
          PROVE  ~Collide(choice[s].seen, row'[q])
      <4>1. CASE q = p
        BY <1>b, <2>1, <2>4, <3>1, <4>1, CollideEither
      <4>2. CASE q # p
        BY <2>2, <3>1, <4>2 DEF IdentityInv, UniqueNew
      <4> QED
        BY <4>1, <4>2
    <3>2. ASSUME NEW s \in Reports, Inserted(s), NEW t \in Reports \ {s}, Inserted(t)
          PROVE  ~Collide(choice[s].seen, choice[t].seen)
      BY <3>2 DEF IdentityInv, UniqueNew
    <3> QED
      BY <1>a, <2>3, <3>1, <3>2 DEF UniqueNew, Collide
  <2> QED
    BY <2>5, <2>6
<1>6. Origins'
  BY <1>a, ReasonStays DEF Origins, IdentityInv, IdentityTypeOK
<1> QED
  BY <1>2, <1>3, <1>4, <1>5, <1>6 DEF IdentityInv

(* Every action of an operator is such an edit.                                 *)
LEMMA OperatorsKeep ==
  ASSUME IdentityInv, NEW p \in Reports, NEW q \in Reports,
         Archive(p) \/ Restore(p) \/ Unmerge(p) \/ ClearPointer(p) \/ Merge(p, q) \/ PointTo(p, q)
  PROVE  IdentityInv'
<1> USE DEF Edit
<1>0. IdentityTypeOK /\ edits' \in 0..MaxEdits
  <2>1. Edit
    BY DEF Archive, Restore, SetArchived, Unmerge, ClearPointer, Merge, PointTo
  <2> QED
    BY <2>1, IdentityAssumption DEF IdentityInv, IdentityTypeOK
<1>1. ASSUME NEW value \in BOOLEAN, SetArchived(p, value) PROVE IdentityInv'
  <2>1. row[p] \in Rows
    BY <1>0, <1>1 DEF IdentityTypeOK, SetArchived
  <2>2. PICK x : x = [row[p] EXCEPT !.archived = value]
    OBVIOUS
  <2>3. x \in Rows
    BY <2>1, <2>2 DEF Rows
  <2>4. row' = [row EXCEPT ![p] = x]
    BY <1>1, <2>2 DEF SetArchived
  <2>5. Edited(p, x)
    <3>1. RowMade(p, row[p])
      BY <1>1 DEF SetArchived, IdentityInv, RowsMade
    <3>2. /\ x.hash = row[p].hash /\ x.key = row[p].key /\ x.street = row[p].street
          /\ x.apn = row[p].apn /\ x.zip = row[p].zip /\ x.merged = row[p].merged
      BY <2>1, <2>2 DEF Rows
    <3>3. RowMade(p, x)
      BY <3>1, <3>2 DEF RowMade, KeyFits
    <3> QED
      BY <1>1, <2>3, <2>4, <3>2, <3>3, NoneAssumption DEF SetArchived, Edited, Live
  <2>6. IdentityTypeOK'
    BY <1>0, <1>1, <2>3, <2>4 DEF IdentityTypeOK, SetArchived
  <2> QED
    BY <2>5, <2>6, EditKeeps
<1>2. ASSUME NEW m \in Reports \cup {None}, row' = [row EXCEPT ![p].merged = m],
             row[p] # None, m = None => Unhindered(p), IdentityTypeOK', Edit,
             \A r \in Reports :
                home'[r] = home[r] \/ (home'[r] \in Reports /\ row[home'[r]] # None)
      PROVE  IdentityInv'
  <2>1. row[p] \in Rows
    BY <1>0, <1>2 DEF IdentityTypeOK
  <2>2. PICK x : x = [row[p] EXCEPT !.merged = m]
    OBVIOUS
  <2>3. x \in Rows
    BY <2>1, <2>2 DEF Rows
  <2>4. row' = [row EXCEPT ![p] = x]
    BY <1>2, <2>2
  <2>5. Edited(p, x)
    <3>1. RowMade(p, row[p])
      BY <1>2 DEF IdentityInv, RowsMade
    <3>2. /\ x.hash = row[p].hash /\ x.key = row[p].key /\ x.street = row[p].street
          /\ x.apn = row[p].apn /\ x.zip = row[p].zip /\ x.merged = m
      BY <2>1, <2>2 DEF Rows
    <3>3. RowMade(p, x)
      BY <3>1, <3>2 DEF RowMade, KeyFits
    <3> QED
      BY <1>2, <2>3, <2>4, <3>2, <3>3, NoneAssumption DEF Edited
  <2> QED
    BY <1>2, <2>5, EditKeeps
<1>3. ASSUME NEW m \in Reports \cup {None}, row' = [row EXCEPT ![p].merged = m], row[p] # None
      PROVE  row' \in [Reports -> Rows \cup {None}]
  <2>1. row[p] \in Rows
    BY <1>0, <1>3 DEF IdentityTypeOK
  <2>2. [row[p] EXCEPT !.merged = m] \in Rows
    BY <2>1 DEF Rows
  <2> QED
    BY <1>0, <1>3, <2>2 DEF IdentityTypeOK
<1>4. ASSUME PointTo(p, q) \/ ClearPointer(p) PROVE IdentityInv'
  <2>1. row' \in [Reports -> Rows \cup {None}] /\ lifo' \in BOOLEAN
    BY <1>0, <1>3, <1>4 DEF PointTo, ClearPointer, IdentityTypeOK
  <2>2. IdentityTypeOK'
    BY <1>0, <1>4, <2>1 DEF PointTo, ClearPointer, IdentityTypeOK
  <2> QED
    <3>1. CASE PointTo(p, q)
      <4>1. row' = [row EXCEPT ![p].merged = q] /\ row[p] # None /\ q # None /\ Edit
        BY <3>1, IdentityAssumption DEF PointTo
      <4> QED
        BY <1>2, <2>2, <3>1, <4>1 DEF PointTo
    <3>2. CASE ClearPointer(p)
      <4>1. row' = [row EXCEPT ![p].merged = None] /\ row[p] # None /\ Unhindered(p) /\ Edit
        BY <3>2 DEF ClearPointer
      <4> QED
        BY <1>2, <2>2, <3>2, <4>1 DEF ClearPointer
    <3> QED
      BY <1>4, <3>1, <3>2
<1>5. ASSUME Merge(p, q) PROVE IdentityInv'
  <2>1. row' \in [Reports -> Rows \cup {None}]
    BY <1>3, <1>5 DEF Merge, Live
  <2>2. home' \in [Reports -> Reports \cup {None}] /\ moves' \subseteq Reports \X Reports \X Reports
    BY <1>0, <1>5 DEF Merge, ReportsOf, IdentityTypeOK
  <2>3. undo' \in Seq(Reports)
    BY <1>0, <1>5 DEF Merge, IdentityTypeOK
  <2>4. IdentityTypeOK'
    BY <1>0, <1>5, <2>1, <2>2, <2>3 DEF Merge, IdentityTypeOK
  <2> QED
    BY <1>2, <1>5, <2>4, IdentityAssumption DEF Merge, Live
<1>6. ASSUME Unmerge(p) PROVE IdentityInv'
  <2>1. row' \in [Reports -> Rows \cup {None}] /\ lifo' \in BOOLEAN
    BY <1>0, <1>3, <1>6 DEF Unmerge, Undone, IdentityTypeOK
  <2>2. home' \in [Reports -> Reports \cup {None}] /\ moves' \subseteq Reports \X Reports \X Reports
    BY <1>0, <1>6 DEF Unmerge, IdentityTypeOK
  <2>3. undo' \in Seq(Reports)
    <3>1. undo \in Seq(Reports)
      BY <1>0 DEF IdentityTypeOK
    <3>2. ASSUME IsLatest(p) PROVE SubSeq(undo, 1, Len(undo) - 1) \in Seq(Reports)
      BY <3>1, <3>2 DEF IsLatest
    <3> QED
      BY <1>6, <3>1, <3>2 DEF Unmerge, Undone
  <2>4. IdentityTypeOK'
    BY <1>0, <1>6, <2>1, <2>2, <2>3 DEF Unmerge, IdentityTypeOK
  <2> QED
    BY <1>2, <1>6, <2>4, IdentityAssumption DEF Unmerge
<1> QED
  BY <1>1, <1>4, <1>5, <1>6 DEF Archive, Restore

(* So is the publication of an entity.                                          *)
LEMMA PublishKeeps ==
  ASSUME IdentityInv, NEW r \in Reports, Publish(r)
  PROVE  IdentityInv'
<1>1. PICK p : p = home[r]
  OBVIOUS
<1>2. /\ p \in Reports /\ row[p] # None /\ row[p] \in Rows /\ RowMade(p, row[p])
      /\ row \in [Reports -> Rows \cup {None}] /\ pc \in [Reports -> Phases]
  BY <1>1 DEF Publish, IdentityInv, IdentityTypeOK, Housed, RowsMade
<1>3. PICK u : u = Filled(row[p], row[p], r)
  OBVIOUS
<1>4. /\ u \in Rows /\ RowMade(p, u) /\ u.hash = row[p].hash /\ u.key = row[p].key
      /\ u.street = row[p].street /\ u.merged = row[p].merged
  BY <1>2, <1>3, FilledRow DEF IdentityInv
<1>5. /\ pc' = [pc EXCEPT ![r] = "done"] /\ pc[r] = "attached"
      /\ evidence' = evidence /\ choice' = choice /\ origin' = origin /\ home' = home
      /\ moves' = moves /\ flagged' = flagged /\ edits' = edits /\ undo' = undo /\ lifo' = lifo
  BY DEF Publish
<1>6. \/ row' = [row EXCEPT ![p] = u]
      \/ row' = [row EXCEPT ![p] = row[p]]
  BY <1>1, <1>2, <1>3 DEF Publish
<1>7. IdentityTypeOK'
  BY <1>2, <1>4, <1>5, <1>6 DEF IdentityInv, IdentityTypeOK, Phases
<1>8. \A s \in Reports : pc'[s] = pc[s] \/ (pc[s] = "attached" /\ pc'[s] = "done")
  BY <1>2, <1>5
<1>9. Edited(p, u) \/ Edited(p, row[p])
  BY <1>2, <1>4, <1>5, <1>6, <1>8, NoneAssumption DEF Edited, Live
<1> QED
  BY <1>2, <1>7, <1>9, EditKeeps

----------------------------------------------------------------------------

(* Every step keeps the invariant.                                              *)
LEMMA IdentityStep == IdentityInv /\ [IdentityNext]_identityVars => IdentityInv'
<1> SUFFICES ASSUME IdentityInv, [IdentityNext]_identityVars PROVE IdentityInv'
  OBVIOUS
<1>1. ASSUME NEW r \in Reports, Resolve(r) PROVE IdentityInv'
  BY <1>1, LockKeeps, QueryKeeps, CreateKeeps, GivenUpKeeps, CommitKeeps, PublishKeeps
  DEF Resolve
<1>2. ASSUME NEW p \in Reports, Archive(p) \/ Restore(p) \/ Unmerge(p) \/ ClearPointer(p)
      PROVE  IdentityInv'
  BY <1>2, OperatorsKeep
<1>3. ASSUME NEW p \in Reports, NEW q \in Reports, Merge(p, q) \/ PointTo(p, q)
      PROVE  IdentityInv'
  BY <1>3, OperatorsKeep
<1>4. ASSUME UNCHANGED identityVars PROVE IdentityInv'
  <2>1. IdentityTypeOK'
    BY <1>4 DEF IdentityInv, IdentityTypeOK, identityVars
  <2>2. RowsMade' /\ Addressed' /\ Housed'
    BY <1>4, EvidenceStays
    DEF IdentityInv, identityVars, RowsMade, Attached, Addressed, Housed
  <2>3. Decided'
    BY <1>4, EvidenceStays, SettledStays
    DEF IdentityInv, identityVars, Decided, Making, FlagsProperty
  <2>4. UniqueLive' /\ UniqueNew'
    BY <1>4 DEF IdentityInv, identityVars, UniqueLive, UniqueNew, Live, Inserted, Collide
  <2>5. Origins'
    BY <1>4, ReasonStays DEF IdentityInv, IdentityTypeOK, identityVars, Origins
  <2> QED
    BY <2>1, <2>2, <2>3, <2>4, <2>5 DEF IdentityInv
<1> QED
  BY <1>1, <1>2, <1>3, <1>4 DEF IdentityNext

(* The invariant holds throughout.                                              *)
LEMMA IdentityInvariant == IdentitySpec => []IdentityInv
<1>1. IdentityInit => IdentityInv
  BY IdentityInitial
<1>2. IdentityInv /\ [IdentityNext]_identityVars => IdentityInv'
  BY IdentityStep
<1> QED
  BY <1>1, <1>2, PTL DEF IdentitySpec

(* Every variable keeps its type, for any reports, evidence and similarity.  *)
THEOREM IdentityTyped == IdentitySpec => []IdentityTypeOK
<1>1. IdentityInv => IdentityTypeOK
  BY DEF IdentityInv
<1> QED
  BY <1>1, IdentityInvariant, PTL

(* What a resolution settled after its query is still true when it commits,  *)
(* whatever other resolutions committed and operators edited in between: a    *)
(* report is attached to a property of another only for cause.               *)
THEOREM AttachmentsHaveACause == IdentitySpec => AttachedForCause
<1> DEFINE ForCause(r) ==
      home[r] = None /\ home'[r] \notin {None, r} => HasCause(home'[r], r)
<1>1. ASSUME IdentityInv, [IdentityNext]_identityVars, NEW r \in Reports PROVE ForCause(r)
  <2>0. home \in [Reports -> Reports \cup {None}]
    BY <1>1 DEF IdentityInv, IdentityTypeOK
  <2>1. ASSUME NEW s \in Reports, Commit(s) PROVE ForCause(r)
    <3>1. home' = [home EXCEPT ![s] = choice[s].take] /\ Settled(s, choice[s])
      BY <1>1, <2>1 DEF IdentityInv, Decided, Commit
    <3>2. CASE r = s
      BY <2>0, <3>1, <3>2 DEF Settled, Taking
    <3>3. CASE r # s
      BY <2>0, <3>1, <3>3
    <3> QED
      BY <3>2, <3>3
  <2>2. ASSUME NEW s \in Reports, Resolve(s), ~Commit(s) PROVE home' = home
    BY <2>2 DEF Resolve, Lock, QueryMatch, QueryFuzzy, QueryNew, QueryExact, Refuse, FindParcel,
       Create, CreateLost, CreateFails, Rollback, Take, Insert, Decide, Publish
  <2>3. ASSUME NEW p \in Reports, Archive(p) \/ Restore(p) \/ ClearPointer(p) PROVE home' = home
    BY <2>3 DEF Archive, Restore, SetArchived, ClearPointer
  <2>4. ASSUME NEW p \in Reports, NEW q \in Reports, PointTo(p, q) PROVE home' = home
    BY <2>4 DEF PointTo
  <2>5. ASSUME NEW p \in Reports, Unmerge(p) PROVE ForCause(r)
    <3>1. \A m \in moves : m[2] # None
      BY <1>1, IdentityAssumption DEF IdentityInv, IdentityTypeOK
    <3>2. home[r] = None => home'[r] = None
      BY <2>5, <3>1 DEF Unmerge, MovedFrom
    <3> QED
      BY <3>2
  <2>6. ASSUME NEW p \in Reports, NEW q \in Reports, Merge(p, q) PROVE ForCause(r)
    <3>1. home[r] = None => home'[r] = None
      BY <2>6, IdentityAssumption DEF Merge, ReportsOf
    <3> QED
      BY <3>1
  <2>7. home' = home => ForCause(r)
    OBVIOUS
  <2> QED
    BY <1>1, <2>1, <2>2, <2>3, <2>4, <2>5, <2>6, <2>7 DEF IdentityNext, identityVars
<1>2. IdentityInv /\ [IdentityNext]_identityVars => \A r \in Reports : ForCause(r)
  BY <1>1
<1> QED
  BY <1>2, IdentityInvariant, PTL DEF IdentitySpec, AttachedForCause

(* Two reports that carry the same identity, and no part of another's, are    *)
(* attached to rows of the same address hash, of which one at most is live.   *)
THEOREM OneHomeForEach == IdentitySpec => []OneHome
<1>1. ASSUME IdentityInv PROVE OneHome
  <2> SUFFICES ASSUME NEW r \in Reports, NEW s \in Reports,
                      Unambiguous(r), Identical(r, s), origin[r] # None, origin[s] # None,
                      Live(origin[r]), Live(origin[s])
               PROVE  origin[r] = origin[s]
    BY DEF OneHome
  <2>1. /\ origin[r] \in Reports /\ origin[s] \in Reports
        /\ Reason(origin[r], r) /\ Reason(origin[s], s)
    BY <1>1 DEF IdentityInv, IdentityTypeOK, Origins
  <2>2. Zip(r) = Zip(s)
    <3>1. /\ Zip(r) \in Zips \cup {None} /\ City(r) \in Cities \cup {None}
          /\ Zip(s) \in Zips \cup {None} /\ City(s) \in Cities \cup {None}
          /\ Zips \cap Cities = {} /\ None \notin Zips \cup Cities
      BY <1>1, EvidenceTypes, IdentityAssumption DEF IdentityInv
    <3>2. Hash(r)[2] = Hash(s)[2]
      BY DEF Identical
    <3>3. /\ Hash(r)[2] = IF r \in Conservative /\ Zip(r) = None THEN City(r) ELSE Zip(r)
          /\ Hash(s)[2] = IF s \in Conservative /\ Zip(s) = None THEN City(s) ELSE Zip(s)
      BY DEF Hash
    <3>4. CASE Zip(r) = None
      BY <3>1, <3>2, <3>3, <3>4
    <3>5. CASE Zip(r) # None
      <4>1. Hash(s)[2] = Zip(r)
        BY <3>2, <3>3, <3>5
      <4> QED
        BY <3>1, <3>3, <3>5, <4>1
    <3> QED
      BY <3>4, <3>5
  <2>a. Street(r) = Street(s)
    BY DEF Identical, Hash
  <2>3. Reason(origin[s], r) \/ origin[s] = s
    BY <2>1, <2>2, <2>a DEF Reason, Identical
  <2>4. ASSUME NEW p \in Reports, Reason(p, r) PROVE Hash(p) = Hash(r)
    <3>1. Identical(r, p) \/ Unrelated(r, p)
      BY DEF Unambiguous
    <3>2. None \notin {Street(p), Street(r)} => Closeness[Street(p)][Street(r)] \in 0..100
      BY <1>1, EvidenceTypes, IdentityAssumption DEF IdentityInv
    <3>3. ~Unrelated(r, p)
      BY <2>4, <3>2 DEF Unrelated, Reason, Differ
    <3> QED
      BY <3>1, <3>3 DEF Identical
  <2>5. Hash(origin[r]) = Hash(origin[s])
    BY <2>1, <2>3, <2>4 DEF Identical
  <2>6. row[origin[r]].hash = row[origin[s]].hash
    BY <1>1, <2>1, <2>5 DEF IdentityInv, RowsMade, RowMade, Live
  <2> QED
    BY <1>1, <2>1, <2>6 DEF IdentityInv, UniqueLive, Collide
<1> QED
  BY <1>1, IdentityInvariant, PTL

----------------------------------------------------------------------------
(* Merges undone in reverse.                                                 *)
Moved(p, r) == \E m \in moves : m[1] = p /\ m[3] = r

(* h[k]: where each report was after the first k merges in force, had the     *)
(* others never been; each merge recorded where it took a report from and to. *)
Trail(h) ==
    /\ h[0] = origin /\ h[Len(undo)] = home
    /\ \A k \in 1..Len(undo), r \in Reports :
         IF Moved(undo[k], r)
         THEN h[k-1][r] = undo[k] /\ <<undo[k], h[k][r], r>> \in moves
         ELSE h[k][r] = h[k-1][r]

Trails == [0..Len(undo) -> [Reports -> Reports \cup {None}]]

MergesInForce ==
    /\ \A i, j \in 1..Len(undo) : undo[i] = undo[j] => i = j
    /\ \A i \in 1..Len(undo) : row[undo[i]] # None /\ row[undo[i]].merged # None
    /\ \A m \in moves : home[m[3]] # None /\ \E i \in 1..Len(undo) : undo[i] = m[1]

MergesOrdered == MergesInForce /\ \E h \in Trails : Trail(h)

Homeless == \A r \in Reports : ~Attached(r) => home[r] = None

MergeInv == IdentityInv /\ Homeless /\ (lifo => MergesOrdered)

(* Nothing is merged at first.                                                  *)
LEMMA MergeInitial == IdentityInit => MergeInv
<1> SUFFICES ASSUME IdentityInit PROVE MergeInv
  OBVIOUS
<1>1. Homeless /\ undo = <<>> /\ moves = {} /\ origin = home
  BY DEF IdentityInit, Homeless, Attached
<1>2. MergesInForce
  BY <1>1 DEF MergesInForce
<1>3. [k \in 0..Len(undo) |-> home] \in Trails
  BY IdentityInitial DEF IdentityInv, IdentityTypeOK, Trails
<1>4. Trail([k \in 0..Len(undo) |-> home])
  BY <1>1 DEF Trail
<1> QED
  BY <1>1, <1>2, <1>3, <1>4, IdentityInitial DEF MergeInv, MergesOrdered

(* A report that is not resolved has no home, and no edit gives it one. *)
LEMMA HomelessStays == MergeInv /\ [IdentityNext]_identityVars => Homeless'
<1> SUFFICES ASSUME MergeInv, [IdentityNext]_identityVars, NEW r \in Reports,
                    ~Attached(r)'
             PROVE  home'[r] = None
  BY DEF Homeless
<1> USE DEF MergeInv, IdentityInv
<1>0. /\ pc \in [Reports -> Phases] /\ home \in [Reports -> Reports \cup {None}]
      /\ None \notin Reports /\ \A m \in moves : m[2] # None
      /\ ~Attached(r) => home[r] = None
  BY IdentityAssumption DEF IdentityTypeOK, Homeless
<1>1. ASSUME NEW s \in Reports, Resolve(s) PROVE home'[r] = None
  <2>1. CASE Commit(s)
    BY <1>0, <2>1 DEF Commit, Attached
  <2>2. CASE Lock(s)
    BY <1>0, <2>2 DEF Lock, Attached
  <2>3. ASSUME NEW phase, NEW c, Decide(s, phase, c), ~Attached(s) PROVE home'[r] = None
    BY <1>0, <2>3 DEF Decide, Attached
  <2>4. CASE Publish(s)
    BY <1>0, <2>4 DEF Publish, Attached
  <2>5. ASSUME ~Commit(s), ~Lock(s), ~Publish(s)
        PROVE  \E phase, c : Decide(s, phase, c) /\ ~Attached(s)
    BY <1>1, <2>5 DEF Resolve, QueryMatch, QueryFuzzy, QueryNew, QueryExact, Refuse,
       FindParcel, Create, CreateLost, CreateFails, Rollback, InTransaction, Take, Insert, Attached
  <2> QED
    BY <1>1, <2>1, <2>2, <2>3, <2>4, <2>5
<1>2. ASSUME NEW p \in Reports, Archive(p) \/ Restore(p) \/ Unmerge(p) \/ ClearPointer(p)
      PROVE  home'[r] = None
  <2>1. pc' = pc
    BY <1>2 DEF Archive, Restore, SetArchived, Unmerge, ClearPointer, Edit
  <2>2. CASE Unmerge(p)
    BY <1>0, <2>1, <2>2 DEF Unmerge, MovedFrom, Attached
  <2>3. CASE ~Unmerge(p)
    BY <1>0, <1>2, <2>1, <2>3 DEF Archive, Restore, SetArchived, ClearPointer, Attached
  <2> QED
    BY <2>2, <2>3
<1>3. ASSUME NEW p \in Reports, NEW q \in Reports, Merge(p, q) \/ PointTo(p, q)
      PROVE  home'[r] = None
  <2>1. pc' = pc
    BY <1>3 DEF Merge, PointTo, Edit
  <2>2. CASE Merge(p, q)
    <3>1. home[r] = None /\ p # None
      BY <1>0, <2>1 DEF Attached
    <3>2. home'[r] = IF r \in ReportsOf(p) THEN q ELSE home[r]
      BY <2>2 DEF Merge
    <3> QED
      BY <3>1, <3>2 DEF ReportsOf
  <2>3. CASE PointTo(p, q)
    BY <1>0, <2>1, <2>3 DEF PointTo, Attached
  <2> QED
    BY <1>3, <2>2, <2>3
<1>4. ASSUME UNCHANGED identityVars PROVE home'[r] = None
  BY <1>0, <1>4 DEF identityVars, Attached
<1> QED
  BY <1>1, <1>2, <1>3, <1>4 DEF IdentityNext

(* A step that moves no report and neither merges nor clears a pointer. *)
LEMMA StillOrdered ==
  ASSUME MergeInv, MergesOrdered,
         home' = home, origin' = origin, moves' = moves, undo' = undo,
         \A i \in 1..Len(undo) :
            row[undo[i]] # None /\ row[undo[i]].merged # None =>
                row'[undo[i]] # None /\ row'[undo[i]].merged # None
  PROVE  MergesOrdered'
<1>1. MergesInForce'
  BY DEF MergesOrdered, MergesInForce
<1>2. PICK h \in Trails : Trail(h)
  BY DEF MergesOrdered
<1>3. h \in Trails'
  BY <1>2 DEF Trails
<1>4. Trail(h)'
  BY <1>2 DEF Trail, Moved
<1> QED
  BY <1>1, <1>3, <1>4 DEF MergesOrdered

(* A report that is attached has no moves yet; it has been there all along.  *)
LEMMA CommitOrdered ==
  ASSUME MergeInv, MergesOrdered, NEW r \in Reports, Commit(r)
  PROVE  MergesOrdered'
<1>p. PICK p : p = choice[r].take
  OBVIOUS
<1>1. /\ home' = [home EXCEPT ![r] = p] /\ origin' = [origin EXCEPT ![r] = p]
      /\ moves' = moves /\ undo' = undo /\ row' = [row EXCEPT ![p] = Updated(r)]
      /\ pc[r] = "take" /\ p \in Reports
  BY <1>p DEF Commit, MergeInv, IdentityInv, Decided, Settled
<1>2. /\ home \in [Reports -> Reports \cup {None}] /\ origin \in [Reports -> Reports \cup {None}]
      /\ row \in [Reports -> Rows \cup {None}] /\ undo \in Seq(Reports)
      /\ moves \subseteq Reports \X Reports \X Reports
  BY DEF MergeInv, IdentityInv, IdentityTypeOK
<1>3. home[r] = None
  BY <1>1 DEF MergeInv, Homeless, Attached
<1>4. \A m \in moves : m[3] # r
  BY <1>3 DEF MergesOrdered, MergesInForce
<1>5. Updated(r) \in Rows /\ (row[p] # None => Updated(r).merged = row[p].merged)
  <2>1. ASSUME row[p] # None PROVE p # r
    BY <1>1, <2>1 DEF MergeInv, IdentityInv, RowsMade, Attached
  <2> QED
    BY <1>1, <1>p, <2>1, UpdatedRow DEF MergeInv
<1>6. MergesInForce'
  <2>1. \A i \in 1..Len(undo) : row'[undo[i]] # None /\ row'[undo[i]].merged # None
    BY <1>1, <1>2, <1>5, NoneAssumption DEF MergesOrdered, MergesInForce
  <2>2. \A m \in moves : home'[m[3]] # None
    BY <1>1, <1>2, <1>4 DEF MergesOrdered, MergesInForce
  <2> QED
    BY <1>1, <2>1, <2>2 DEF MergesOrdered, MergesInForce
<1>7. PICK h \in Trails : Trail(h)
  BY DEF MergesOrdered
<1>8. PICK g : g = [k \in 0..Len(undo) |-> [h[k] EXCEPT ![r] = p]]
  OBVIOUS
<1>9. /\ g \in Trails
      /\ \A k \in 0..Len(undo), s \in Reports : g[k][s] = IF s = r THEN p ELSE h[k][s]
      /\ \A k \in 0..Len(undo) : g[k] = [h[k] EXCEPT ![r] = p]
  BY <1>1, <1>7, <1>8 DEF Trails
<1>10. Trail(g)'
  <2>1. Len(undo) \in Nat
    BY <1>2
  <2>2. g[0] = origin' /\ g[Len(undo)] = home'
    <3>1. 0 \in 0..Len(undo) /\ Len(undo) \in 0..Len(undo)
      BY <2>1
    <3>2. h[0] = origin /\ h[Len(undo)] = home
      BY <1>7 DEF Trail
    <3> QED
      BY <1>1, <1>9, <3>1, <3>2
  <2>3. ASSUME NEW k \in 1..Len(undo), NEW s \in Reports
        PROVE  IF Moved(undo[k], s)
               THEN g[k-1][s] = undo[k] /\ <<undo[k], g[k][s], s>> \in moves
               ELSE g[k][s] = g[k-1][s]
    <3>1. k \in 0..Len(undo) /\ k-1 \in 0..Len(undo)
      BY <2>1
    <3>2. CASE s = r
      <4>1. ~Moved(undo[k], s)
        BY <1>4, <3>2 DEF Moved
      <4> QED
        BY <1>9, <3>1, <3>2, <4>1
    <3>3. CASE s # r
      <4>1. g[k][s] = h[k][s] /\ g[k-1][s] = h[k-1][s]
        BY <1>9, <3>1, <3>3
      <4> QED
        BY <1>7, <4>1 DEF Trail
    <3> QED
      BY <3>2, <3>3
  <2> QED
    BY <1>1, <2>2, <2>3 DEF Trail, Moved
<1>11. g \in Trails'
  BY <1>1, <1>9 DEF Trails
<1> QED
  BY <1>6, <1>10, <1>11 DEF MergesOrdered

(* A merge is appended: its reports go from p to q, and its moves say so. *)
LEMMA MergeOrdered ==
  ASSUME MergeInv, MergesOrdered, NEW p \in Reports, NEW q \in Reports, Merge(p, q)
  PROVE  MergesOrdered'
<1> DEFINE n == Len(undo)
<1>1. /\ home' = [r \in Reports |-> IF r \in ReportsOf(p) THEN q ELSE home[r]]
      /\ moves' = moves \cup {<<p, q, r>> : r \in ReportsOf(p)}
      /\ ReportsOf(p) \subseteq Reports /\ \A r \in ReportsOf(p) : home[r] = p
      /\ undo' = Append(undo, p) /\ origin' = origin
      /\ row' = [row EXCEPT ![p].merged = q]
      /\ row[p] # None /\ row[p].merged = None
  BY DEF Merge, Edit, Live, ReportsOf
<1>2. /\ home \in [Reports -> Reports \cup {None}]
      /\ row \in [Reports -> Rows \cup {None}] /\ undo \in Seq(Reports)
      /\ moves \subseteq Reports \X Reports \X Reports /\ n \in Nat /\ q # None
  BY IdentityAssumption DEF MergeInv, IdentityInv, IdentityTypeOK
<1>3. /\ Len(undo') = n + 1 /\ undo'[n + 1] = p
      /\ \A i \in 1..n : undo'[i] = undo[i] /\ undo[i] # p
  BY <1>1, <1>2 DEF MergesOrdered, MergesInForce
<1>4. \A m \in moves : m[1] # p
  BY <1>3 DEF MergesOrdered, MergesInForce
<1>5. /\ row'[p] # None /\ row'[p].merged # None
      /\ \A x \in Reports \ {p} : row'[x] = row[x]
  <2>1. row[p] \in Rows
    BY <1>1, <1>2
  <2>2. [row[p] EXCEPT !.merged = q] \in Rows
    BY <2>1 DEF Rows
  <2>3. row'[p] = [row[p] EXCEPT !.merged = q] /\ row'[p].merged = q
    BY <1>1, <1>2, <2>1 DEF Rows
  <2> QED
    BY <1>1, <1>2, <2>2, <2>3, NoneAssumption
<1>6. MergesInForce'
  <2>1. ASSUME NEW i \in 1..n+1, NEW j \in 1..n+1, undo'[i] = undo'[j] PROVE i = j
    BY <1>2, <1>3, <2>1 DEF MergesOrdered, MergesInForce
  <2>2. ASSUME NEW i \in 1..n+1 PROVE row'[undo'[i]] # None /\ row'[undo'[i]].merged # None
    <3>1. CASE i = n + 1
      BY <1>3, <1>5, <3>1
    <3>2. CASE i # n + 1
      <4>1. i \in 1..n /\ undo[i] \in Reports \ {p} /\ undo'[i] = undo[i]
        BY <1>2, <1>3, <3>2
      <4> QED
        BY <1>5, <4>1 DEF MergesOrdered, MergesInForce
    <3> QED
      BY <3>1, <3>2
  <2>3. ASSUME NEW m \in moves' PROVE home'[m[3]] # None /\ \E i \in 1..n+1 : undo'[i] = m[1]
    <3>1. CASE m \in moves
      <4>1. m[3] \in Reports /\ home[m[3]] # None
        BY <1>2, <3>1 DEF MergesOrdered, MergesInForce
      <4>2. PICK i \in 1..n : undo[i] = m[1]
        BY <3>1 DEF MergesOrdered, MergesInForce
      <4>3. i \in 1..n+1 /\ undo'[i] = m[1]
        BY <1>2, <1>3, <4>2
      <4>4. home'[m[3]] # None
        BY <1>1, <1>2, <4>1
      <4> QED
        BY <4>3, <4>4
    <3>2. CASE m \notin moves
      <4>1. m[1] = p /\ m[3] \in ReportsOf(p)
        BY <1>1, <3>2
      <4>2. home'[m[3]] = q
        BY <1>1, <4>1
      <4>3. n+1 \in 1..n+1
        BY <1>2
      <4> QED
        BY <1>2, <1>3, <4>1, <4>2, <4>3
    <3> QED
      BY <3>1, <3>2
  <2> QED
    BY <1>3, <2>1, <2>2, <2>3 DEF MergesInForce
<1>7. PICK h \in Trails : Trail(h)
  BY DEF MergesOrdered
<1>8. PICK g : g = [k \in 0..n+1 |-> IF k = n + 1 THEN home' ELSE h[k]]
  OBVIOUS
<1>9. /\ g[n + 1] = home' /\ \A k \in 0..n : g[k] = h[k]
      /\ g \in [0..n+1 -> [Reports -> Reports \cup {None}]]
  BY <1>1, <1>2, <1>7, <1>8 DEF Trails
<1>10. \A r \in Reports : Moved(p, r)' <=> r \in ReportsOf(p)
  <2> SUFFICES ASSUME NEW r \in Reports PROVE Moved(p, r)' <=> r \in ReportsOf(p)
    OBVIOUS
  <2>1. ASSUME r \in ReportsOf(p) PROVE Moved(p, r)'
    <3>1. <<p, q, r>> \in moves'
      BY <1>1, <2>1
    <3> QED
      BY <3>1 DEF Moved
  <2>2. ASSUME Moved(p, r)' PROVE r \in ReportsOf(p)
    BY <1>1, <1>4, <2>2 DEF Moved
  <2> QED
    BY <2>1, <2>2
<1>11. \A x \in Reports \ {p}, r \in Reports : Moved(x, r)' <=> Moved(x, r)
  BY <1>1 DEF Moved
<1>12. Trail(g)'
  <2>1. g[0] = origin' /\ g[n + 1] = home'
    <3>1. 0 \in 0..n /\ h[0] = origin
      BY <1>2, <1>7 DEF Trail
    <3> QED
      BY <1>1, <1>9, <3>1
  <2>2. ASSUME NEW k \in 1..n+1, NEW r \in Reports
        PROVE  IF Moved(undo[k], r)'
               THEN g[k-1][r] = undo'[k] /\ <<undo'[k], g[k][r], r>> \in moves'
               ELSE g[k][r] = g[k-1][r]
    <3>1. CASE k = n + 1
      <4>1. g[k-1] = home /\ g[k] = home' /\ undo'[k] = p
        BY <1>2, <1>3, <1>7, <1>9, <3>1 DEF Trail
      <4>2. Moved(undo[k], r)' <=> r \in ReportsOf(p)
        BY <1>10, <4>1
      <4> QED
        BY <1>1, <4>1, <4>2
    <3>2. CASE k # n + 1
      <4>1. /\ k \in 1..n /\ g[k] = h[k] /\ g[k-1] = h[k-1]
            /\ undo'[k] = undo[k] /\ undo[k] \in Reports \ {p}
        BY <1>2, <1>3, <1>9, <3>2
      <4>2. Moved(undo[k], r)' <=> Moved(undo[k], r)
        BY <1>11, <4>1
      <4>3. IF Moved(undo[k], r)
            THEN h[k-1][r] = undo[k] /\ <<undo[k], h[k][r], r>> \in moves
            ELSE h[k][r] = h[k-1][r]
        BY <1>7, <4>1 DEF Trail
      <4> QED
        BY <1>1, <4>1, <4>2, <4>3
    <3> QED
      BY <3>1, <3>2
  <2> QED
    BY <1>3, <2>1, <2>2 DEF Trail
<1>13. g \in Trails'
  BY <1>3, <1>9 DEF Trails
<1> QED
  BY <1>6, <1>12, <1>13 DEF MergesOrdered

(* The latest merge is undone: its reports are back where it found them.  If p *)
(* was never merged, only its pointer is cleared.                             *)
LEMMA UnmergeOrdered ==
  ASSUME MergeInv, MergesOrdered, NEW p \in Reports, Unmerge(p), lifo'
  PROVE  MergesOrdered'
<1> DEFINE n == Len(undo)
<1>1. /\ home' = [r \in Reports |->
                    IF \E m \in MovedFrom(p) : m[3] = r /\ m[2] = home[r] THEN p ELSE home[r]]
      /\ moves' = moves \ MovedFrom(p) /\ origin' = origin
      /\ row' = [row EXCEPT ![p].merged = None]
      /\ \A i \in 1..n : undo[i] = p => i = n
      /\ undo' = IF IsLatest(p) THEN SubSeq(undo, 1, Len(undo) - 1) ELSE undo
  BY DEF Unmerge, Edit, Undone
<1>2. /\ home \in [Reports -> Reports \cup {None}]
      /\ row \in [Reports -> Rows \cup {None}] /\ undo \in Seq(Reports)
      /\ moves \subseteq Reports \X Reports \X Reports /\ n \in Nat
  BY DEF MergeInv, IdentityInv, IdentityTypeOK
<1>3. \A x \in Reports \ {p} : row'[x] = row[x]
  BY <1>1, <1>2
<1>4. PICK h \in Trails : Trail(h)
  BY DEF MergesOrdered
<1>5. CASE IsLatest(p)
  <2>1. /\ n # 0 /\ undo[n] = p /\ Len(undo') = n - 1
        /\ \A i \in 1..n-1 : undo'[i] = undo[i] /\ undo[i] \in Reports \ {p}
    <3>1. n # 0 /\ undo[n] = p /\ undo' = SubSeq(undo, 1, n - 1)
      BY <1>1, <1>2, <1>5 DEF IsLatest
    <3>2. Len(undo') = n - 1 /\ \A i \in 1..n-1 : undo'[i] = undo[i]
      <4>1. 1 \in Int /\ n - 1 \in Nat
        BY <1>2, <3>1
      <4>2. \A i \in 1..n-1 : undo[i] \in Reports
        BY <1>2
      <4>3. /\ Len(SubSeq(undo, 1, n-1)) = IF 1 <= n-1 THEN n-1-1+1 ELSE 0
            /\ \A i \in 1..n-1-1+1 : SubSeq(undo, 1, n-1)[i] = undo[1+i-1]
        BY <4>1, <4>2, SubSeqProperties
      <4>4. \A i \in 1..n-1 : SubSeq(undo, 1, n-1)[i] = undo[i]
        BY <1>2, <4>3
      <4>5. Len(SubSeq(undo, 1, n-1)) = n - 1
        <5>1. \A m \in Nat : m # 0 => (IF 1 <= m-1 THEN m-1-1+1 ELSE 0) = m - 1
          OBVIOUS
        <5>2. n \in Nat /\ n # 0
          BY <1>2, <3>1
        <5> HIDE DEF n
        <5> QED
          BY <5>1, <5>2, <4>3
      <4> QED
        BY <3>1, <4>4, <4>5
    <3>3. ASSUME NEW i \in 1..n-1 PROVE undo[i] \in Reports \ {p}
      <4>1. i \in 1..n /\ i # n
        BY <1>2
      <4> QED
        BY <1>1, <1>2, <4>1
    <3> QED
      BY <3>1, <3>2, <3>3
  <2>2. \A r \in Reports : home'[r] = h[n-1][r]
    <3> SUFFICES ASSUME NEW r \in Reports PROVE home'[r] = h[n-1][r]
      OBVIOUS
    <3>1. /\ h[n] = home
          /\ IF Moved(p, r) THEN h[n-1][r] = p /\ <<p, h[n][r], r>> \in moves
            ELSE h[n][r] = h[n-1][r]
      BY <1>2, <1>4, <2>1 DEF Trail
    <3>2. CASE Moved(p, r)
      <4>1. <<p, home[r], r>> \in MovedFrom(p)
        BY <3>1, <3>2 DEF MovedFrom
      <4> QED
        BY <1>1, <3>1, <3>2, <4>1
    <3>3. CASE ~Moved(p, r)
      <4>1. \A m \in MovedFrom(p) : m[3] # r
        BY <3>3 DEF Moved, MovedFrom
      <4> QED
        BY <1>1, <3>1, <3>3, <4>1
    <3> QED
      BY <3>2, <3>3
  <2>3. PICK g : g = [k \in 0..n-1 |-> h[k]]
    OBVIOUS
  <2>4. h \in [0..n -> [Reports -> Reports \cup {None}]]
    BY <1>4 DEF Trails
  <2>5. g \in [0..n-1 -> [Reports -> Reports \cup {None}]]
    BY <1>2, <2>1, <2>3, <2>4
  <2>6. h[n-1] = home'
    <3>1. h[n-1] \in [Reports -> Reports \cup {None}]
      BY <1>2, <2>1, <2>4
    <3>2. h[n-1] = [r \in Reports |-> h[n-1][r]]
      BY <3>1
    <3>3. home' = [r \in Reports |-> home'[r]]
      BY <1>1
    <3> QED
      BY <2>2, <3>2, <3>3
  <2>7. \A x \in Reports \ {p}, r \in Reports : Moved(x, r)' <=> Moved(x, r)
    BY <1>1 DEF Moved, MovedFrom
  <2>8. Trail(g)'
    <3>1. g[0] = origin' /\ g[n-1] = home'
      <4>1. 0 \in 0..n-1 /\ n-1 \in 0..n-1
        BY <1>2, <2>1
      <4>2. h[0] = origin
        BY <1>4 DEF Trail
      <4> QED
        BY <1>1, <2>3, <2>6, <4>1, <4>2
    <3>2. ASSUME NEW k \in 1..n-1, NEW r \in Reports
          PROVE  IF Moved(undo[k], r)'
                 THEN g[k-1][r] = undo'[k] /\ <<undo'[k], g[k][r], r>> \in moves'
                 ELSE g[k][r] = g[k-1][r]
      <4>1. /\ k \in 1..n /\ g[k] = h[k] /\ g[k-1] = h[k-1]
            /\ undo'[k] = undo[k] /\ undo[k] \in Reports \ {p}
        BY <1>2, <2>1, <2>3
      <4>2. Moved(undo[k], r)' <=> Moved(undo[k], r)
        BY <2>7, <4>1
      <4>3. IF Moved(undo[k], r)
            THEN h[k-1][r] = undo[k] /\ <<undo[k], h[k][r], r>> \in moves
            ELSE h[k][r] = h[k-1][r]
        BY <1>4, <4>1 DEF Trail
      <4>4. <<undo[k], h[k][r], r>> \notin MovedFrom(p)
        BY <4>1 DEF MovedFrom
      <4> QED
        BY <1>1, <4>1, <4>2, <4>3, <4>4
    <3> QED
      BY <2>1, <3>1, <3>2 DEF Trail
  <2>9. MergesInForce'
    <3>1. ASSUME NEW i \in 1..n-1, NEW j \in 1..n-1, undo'[i] = undo'[j] PROVE i = j
      BY <1>2, <2>1, <3>1 DEF MergesOrdered, MergesInForce
    <3>2. ASSUME NEW i \in 1..n-1 PROVE row'[undo'[i]] # None /\ row'[undo'[i]].merged # None
      <4>1. i \in 1..n /\ undo'[i] = undo[i] /\ row'[undo[i]] = row[undo[i]]
        BY <1>2, <1>3, <2>1
      <4> QED
        BY <4>1 DEF MergesOrdered, MergesInForce
    <3>3. ASSUME NEW m \in moves' PROVE home'[m[3]] # None /\ \E i \in 1..n-1 : undo'[i] = m[1]
      <4>1. m \in moves /\ m[1] # p /\ m[3] \in Reports
        BY <1>1, <1>2 DEF MovedFrom
      <4>2. PICK i \in 1..n : undo[i] = m[1]
        BY <4>1 DEF MergesOrdered, MergesInForce
      <4>3. i \in 1..n-1
        BY <1>2, <2>1, <4>1, <4>2
      <4>4. home[m[3]] # None
        BY <4>1 DEF MergesOrdered, MergesInForce
      <4>5. home'[m[3]] # None
        BY <1>1, <4>1, <4>4, IdentityAssumption
      <4> QED
        BY <2>1, <4>2, <4>3, <4>5
    <3> QED
      BY <2>1, <3>1, <3>2, <3>3 DEF MergesInForce
  <2>10. g \in Trails'
    BY <2>1, <2>5 DEF Trails
  <2> QED
    BY <2>8, <2>9, <2>10 DEF MergesOrdered
<1>6. CASE ~IsLatest(p)
  <2>1. undo' = undo /\ \A i \in 1..n : undo[i] # p
    BY <1>1, <1>2, <1>6 DEF IsLatest
  <2>2. MovedFrom(p) = {}
    BY <2>1 DEF MovedFrom, MergesOrdered, MergesInForce
  <2>3. home' = home
    BY <1>1, <1>2, <2>2
  <2>4. moves' = moves
    BY <1>1, <2>2
  <2>5. \A i \in 1..n : row'[undo[i]] = row[undo[i]]
    BY <1>2, <1>3, <2>1
  <2> QED
    BY <1>1, <2>1, <2>3, <2>4, <2>5, StillOrdered
<1> QED
  BY <1>5, <1>6

(* Every step keeps the record of the merges in force.                          *)
LEMMA MergeStep == MergeInv /\ [IdentityNext]_identityVars => MergeInv'
<1> SUFFICES ASSUME MergeInv, [IdentityNext]_identityVars, lifo' PROVE MergesOrdered'
  BY IdentityStep, HomelessStays DEF MergeInv
<1>0. /\ row \in [Reports -> Rows \cup {None}] /\ undo \in Seq(Reports)
      /\ \A i \in 1..Len(undo) : undo[i] \in Reports
  BY DEF MergeInv, IdentityInv, IdentityTypeOK
<1>1. ASSUME NEW s \in Reports, Resolve(s) PROVE MergesOrdered'
  <2>1. CASE Commit(s)
    BY <2>1, CommitOrdered DEF Commit, MergeInv
  <2>2. CASE Lock(s)
    BY <2>2, StillOrdered DEF Lock, MergeInv
  <2>3. ASSUME NEW phase, NEW c, Decide(s, phase, c) PROVE MergesOrdered'
    BY <2>3, StillOrdered DEF Decide, MergeInv
  <2>4. CASE Publish(s)
    <3>1. PICK p : p = home[s]
      OBVIOUS
    <3>2. /\ p \in Reports /\ row[p] \in Rows
      BY <1>0, <2>4, <3>1 DEF Publish, MergeInv, IdentityInv, Housed
    <3>3. PICK u : u = Filled(row[p], row[p], s)
      OBVIOUS
    <3>4. u \in Rows /\ u.merged = row[p].merged
      BY <2>4, <3>1, <3>2, <3>3, FilledRow, NoneAssumption DEF Publish, MergeInv, IdentityInv, Housed, RowsMade
    <3>5. row' = [row EXCEPT ![p] = u] \/ row' = row
      BY <2>4, <3>1, <3>3 DEF Publish
    <3>6. \A x \in Reports : row[x] # None /\ row[x].merged # None =>
                               row'[x] # None /\ row'[x].merged # None
      BY <1>0, <3>2, <3>4, <3>5, NoneAssumption
    <3> QED
      BY <1>0, <2>4, <3>6, StillOrdered DEF Publish, MergeInv
  <2>5. ASSUME ~Commit(s), ~Lock(s), ~Publish(s) PROVE \E phase, c : Decide(s, phase, c)
    BY <1>1, <2>5 DEF Resolve, QueryMatch, QueryFuzzy, QueryNew, QueryExact, Refuse,
       FindParcel, Create, CreateLost, CreateFails, Rollback, Take, Insert
  <2> QED
    BY <2>1, <2>2, <2>3, <2>4, <2>5
<1>2. ASSUME NEW p \in Reports, NEW q \in Reports, Merge(p, q) PROVE MergesOrdered'
  BY <1>2, MergeOrdered DEF Merge, MergeInv
<1>3. ASSUME NEW p \in Reports, Unmerge(p) PROVE MergesOrdered'
  BY <1>3, UnmergeOrdered DEF Unmerge, Undone, MergeInv
<1>4. ASSUME NEW p \in Reports, NEW value \in BOOLEAN, SetArchived(p, value) PROVE MergesOrdered'
  <2>1. /\ home' = home /\ moves' = moves /\ undo' = undo /\ lifo' = lifo /\ origin' = origin
        /\ row[p] # None /\ row' = [row EXCEPT ![p].archived = value]
    BY <1>4 DEF SetArchived, Edit
  <2>2. row[p] \in Rows
    BY <1>0, <2>1
  <2>3. [row[p] EXCEPT !.archived = value] \in Rows
    BY <2>2 DEF Rows
  <2>4. row'[p] # None /\ row'[p].merged = row[p].merged
    BY <1>0, <2>1, <2>2, <2>3, NoneAssumption DEF Rows
  <2>5. \A x \in Reports \ {p} : row'[x] = row[x]
    BY <1>0, <2>1
  <2> QED
    BY <1>0, <2>1, <2>4, <2>5, StillOrdered DEF MergeInv
<1>5. ASSUME NEW p \in Reports, NEW q \in Reports, PointTo(p, q) PROVE MergesOrdered'
  <2>1. /\ home' = home /\ moves' = moves /\ undo' = undo /\ lifo' = lifo /\ origin' = origin
        /\ row[p] # None /\ row' = [row EXCEPT ![p].merged = q] /\ q # None
    BY <1>5, IdentityAssumption DEF PointTo, Edit
  <2>2. row[p] \in Rows
    BY <1>0, <2>1
  <2>3. [row[p] EXCEPT !.merged = q] \in Rows
    BY <2>2 DEF Rows
  <2>4. row'[p] # None /\ row'[p].merged # None
    BY <1>0, <2>1, <2>2, <2>3, NoneAssumption DEF Rows
  <2>5. \A x \in Reports \ {p} : row'[x] = row[x]
    BY <1>0, <2>1
  <2> QED
    BY <1>0, <2>1, <2>4, <2>5, StillOrdered DEF MergeInv
<1>6. ASSUME NEW p \in Reports, ClearPointer(p) PROVE MergesOrdered'
  <2>1. /\ home' = home /\ moves' = moves /\ undo' = undo /\ origin' = origin
        /\ lifo /\ \A i \in 1..Len(undo) : undo[i] # p
        /\ row' = [row EXCEPT ![p].merged = None]
    BY <1>6 DEF ClearPointer, Edit
  <2>2. \A x \in Reports \ {p} : row'[x] = row[x]
    BY <1>0, <2>1
  <2> QED
    BY <1>0, <2>1, <2>2, StillOrdered DEF MergeInv
<1>7. ASSUME UNCHANGED identityVars PROVE MergesOrdered'
  BY <1>7, StillOrdered DEF identityVars, MergeInv
<1> QED
  BY <1>1, <1>2, <1>3, <1>4, <1>5, <1>6, <1>7 DEF IdentityNext, Archive, Restore

(* When every merge has been undone, latest first, each report is where its   *)
(* resolution had put it, whatever was resolved and edited in between.        *)
THEOREM MergesAreReversible == IdentitySpec => []UndoneInReverse
<1>1. ASSUME MergeInv PROVE UndoneInReverse
  <2> SUFFICES ASSUME AllUndone, lifo PROVE home = origin
    BY DEF UndoneInReverse
  <2>1. undo \in Seq(Reports)
    BY <1>1 DEF MergeInv, IdentityInv, IdentityTypeOK
  <2>2. Len(undo) = 0
    <3>1. ASSUME Len(undo) # 0 PROVE FALSE
      <4>1. 1 \in 1..Len(undo) /\ undo[1] \in Reports
        BY <2>1, <3>1
      <4> QED
        BY <1>1, <4>1 DEF MergeInv, MergesOrdered, MergesInForce, AllUndone
    <3> QED
      BY <3>1
  <2> QED
    BY <1>1, <2>2 DEF MergeInv, MergesOrdered, Trail
<1>2. IdentityInit => MergeInv
  BY MergeInitial
<1>3. MergeInv /\ [IdentityNext]_identityVars => MergeInv'
  BY MergeStep
<1> QED
  BY <1>1, <1>2, <1>3, PTL DEF IdentitySpec
================================================================================
