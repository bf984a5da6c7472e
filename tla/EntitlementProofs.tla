--------------------------- MODULE EntitlementProofs ---------------------------
(***************************************************************************)
(* Entitlements, first on the side of billing, then where the panel        *)
(* enforces them.                                                          *)
(*                                                                         *)
(* Enrollment and entitlements for any number of domains, codes, keys and  *)
(* changes of the service's row, and for every choice of the lifetimes in  *)
(* which a replaced key is served at least as long as an entitlement lives *)
(* (EnrollmentAssumption).                                                 *)
(***************************************************************************)
EXTENDS Enrollment, Enforcement, SequenceTheorems, FiniteSetTheorems, TLAPS

Code(n) == [domain : Domains, expires : Nat, used : 0 .. n, revoked : BOOLEAN]
Installation(n) == [domain : Domains, revoked : BOOLEAN, code : 1 .. n]
Key == [active : BOOLEAN, expires : Nat, rotated : Nat, retired : BOOLEAN, emergency : BOOLEAN]
Payload(n) == [installation : Nat, key : 0 .. n, expires : Nat]
Poll(n) == [pc : {"idle", "keyed", "answered"}, config : Nat, keys : SUBSET Nat, answer : Payload(n)]

ClockTyped == now \in 0 .. MaxTime /\ changes \in 0 .. MaxChanges

RowsTyped ==
    /\ row \in [domain : Domains, shared : BOOLEAN, archived : BOOLEAN]
    /\ codes \in Seq(Code(Len(installs)))
    /\ installs \in Seq(Installation(Len(codes)))

KeysTyped == keys \in Seq(Key)

SiteTyped ==
    site \in [config : 0 .. Len(installs), enrolling : 0 .. Len(installs),
              stored : Payload(Len(keys)), poll : Poll(Len(keys))]

(* A domain never has two installations that are not revoked, whichever of *)
(* its domains the service has now.                                        *)
OneUnrevoked ==
    \A m, n \in 1 .. Len(installs) :
        /\ installs[m].domain = installs[n].domain
        /\ ~installs[m].revoked /\ ~installs[n].revoked
        => m = n

(* A code remembers the installation it made.                              *)
Remembered == \A n \in 1 .. Len(installs) : codes[installs[n].code].used = n

(* At most one key is active, and it is not retired.                       *)
OneActive ==
    /\ \A k, l \in 1 .. Len(keys) : keys[k].active /\ keys[l].active => k = l
    /\ \A k \in 1 .. Len(keys) : keys[k].active => ~keys[k].retired

(* What holds of the key of a signed payload until the payload expires: it *)
(* was active when it signed, so it was replaced after that, and retired   *)
(* only once it was over, or in an emergency.                              *)
Served(payload) ==
    LET key == keys[payload.key] IN
    payload.key # 0 =>
        /\ payload.expires <= now + Ttl
        /\ ~key.active => payload.expires <= key.rotated + Ttl
        /\ key.retired => key.emergency \/ Over(payload.key)

Answers == {site.stored, site.poll.answer}

EnrollmentInv ==
    /\ ClockTyped /\ RowsTyped /\ KeysTyped /\ SiteTyped
    /\ OneUnrevoked /\ Remembered /\ OneActive
    /\ \A payload \in Answers : Served(payload)

-----------------------------------------------------------------------------
LEMMA InitEnrollment == Init => EnrollmentInv
<1> SUFFICES ASSUME Init PROVE EnrollmentInv
    OBVIOUS
<1>1. /\ now = 0 /\ changes = 0 /\ codes = <<>> /\ installs = <<>> /\ keys = <<>>
      /\ row \in [domain : Domains, shared : {TRUE}, archived : {FALSE}]
      /\ site = [config |-> 0, enrolling |-> 0, stored |-> NoPayload, poll |-> IdlePoll]
    BY DEF Init
<1>2. ClockTyped
    BY <1>1, EnrollmentAssumption DEF ClockTyped
<1>3. RowsTyped /\ KeysTyped
    BY <1>1, EmptySeq DEF RowsTyped, KeysTyped
<1>4. SiteTyped
    BY <1>1 DEF SiteTyped, NoPayload, IdlePoll, Payload, Poll
<1>5. OneUnrevoked /\ Remembered /\ OneActive
    BY <1>1 DEF OneUnrevoked, Remembered, OneActive
<1>6. \A payload \in Answers : Served(payload)
    BY <1>1 DEF Answers, Served, NoPayload, IdlePoll
<1> QED
    BY <1>2, <1>3, <1>4, <1>5, <1>6 DEF EnrollmentInv

(* The numbers behind the types.                                           *)
LEMMA Bounds ==
    ASSUME EnrollmentInv
    PROVE  /\ now \in Nat /\ now + CodeLife \in Nat /\ now + KeyLife \in Nat /\ now + Ttl \in Nat
           /\ Len(codes) \in Nat /\ DOMAIN codes = 1 .. Len(codes)
           /\ Len(installs) \in Nat /\ DOMAIN installs = 1 .. Len(installs)
           /\ Len(keys) \in Nat /\ DOMAIN keys = 1 .. Len(keys)
           /\ \A k \in 1 .. Len(codes) : codes[k] \in Code(Len(installs))
           /\ \A n \in 1 .. Len(installs) : installs[n] \in Installation(Len(codes))
           /\ \A k \in 1 .. Len(keys) : keys[k] \in Key
<1>1. codes \in Seq(Code(Len(installs))) /\ installs \in Seq(Installation(Len(codes))) /\ keys \in Seq(Key)
    BY DEF EnrollmentInv, RowsTyped, KeysTyped
<1>2. now \in Nat
    BY EnrollmentAssumption DEF EnrollmentInv, ClockTyped
<1> QED
    BY <1>1, <1>2, LenProperties, ElementOfSeq, EnrollmentAssumption

(* Whoever leaves the keys, the clock and what the site holds alone.       *)
LEMMA Unserved ==
    ASSUME EnrollmentInv, UNCHANGED <<keys, now>>,
           Answers' = Answers
    PROVE  \A payload \in Answers' : Served(payload)'
BY DEF EnrollmentInv, Served, Over, Answers

-----------------------------------------------------------------------------
(* Codes and installations                                                 *)

LEMMA CodeStep ==
    ASSUME EnrollmentInv, CreatesCode \/ \E k \in DOMAIN codes : RevokesCode(k) PROVE EnrollmentInv'
<1>1. /\ UNCHANGED <<now, row, installs, keys, site, changes>>
      /\ Answers' = Answers
    BY DEF CreatesCode, RevokesCode, Answers
<1>2. /\ codes' \in Seq(Code(Len(installs))) /\ Len(codes') \in Nat /\ Len(codes) <= Len(codes')
      /\ \A k \in 1 .. Len(codes) : codes'[k].used = codes[k].used
  <2>1. CASE CreatesCode
    <3> DEFINE new == [domain |-> row.domain, expires |-> now + CodeLife, used |-> 0, revoked |-> FALSE]
    <3>1. new \in Code(Len(installs))
        BY Bounds DEF Code, EnrollmentInv, RowsTyped
    <3>2. codes' = Append(codes, new) /\ codes \in Seq(Code(Len(installs)))
        BY <2>1 DEF CreatesCode, EnrollmentInv, RowsTyped
    <3> HIDE DEF new
    <3> QED
        BY <3>1, <3>2, Bounds, AppendProperties
  <2>2. ASSUME NEW k \in DOMAIN codes, RevokesCode(k) PROVE <1>2!1 /\ <1>2!2
    <3> DEFINE new == [codes[k] EXCEPT !.revoked = TRUE]
    <3>1. k \in 1 .. Len(codes) /\ codes[k] \in Code(Len(installs))
        BY Bounds
    <3>2. new \in Code(Len(installs)) /\ new.used = codes[k].used
        BY <3>1 DEF Code
    <3>3. codes' = [codes EXCEPT ![k] = new] /\ codes \in Seq(Code(Len(installs)))
        BY <2>2 DEF RevokesCode, EnrollmentInv, RowsTyped
    <3> HIDE DEF new
    <3> QED
        BY <3>1, <3>2, <3>3, Bounds, ExceptSeq
  <2> QED
      BY <2>1, <2>2
<1>3. Installation(Len(codes)) \subseteq Installation(Len(codes'))
    BY <1>2, Bounds DEF Installation
<1>4. RowsTyped'
    BY <1>1, <1>2, <1>3, SeqMonotonic DEF EnrollmentInv, RowsTyped
<1>5. Remembered' /\ OneUnrevoked'
    BY <1>1, <1>2, Bounds DEF EnrollmentInv, Remembered, OneUnrevoked, Installation
<1>6. ClockTyped' /\ KeysTyped' /\ SiteTyped' /\ OneActive'
    BY <1>1 DEF EnrollmentInv, ClockTyped, KeysTyped, SiteTyped, OneActive
<1> QED
    BY <1>1, <1>4, <1>5, <1>6, Unserved DEF EnrollmentInv

(* A code makes an installation where the domain has none.                 *)
LEMMA ExchangeStep ==
    ASSUME EnrollmentInv, NEW k \in DOMAIN codes, Exchanges(k) PROVE EnrollmentInv'
<1> DEFINE new == [domain |-> row.domain, revoked |-> FALSE, code |-> k]
           n == Len(installs) + 1
           used == [codes[k] EXCEPT !.used = n]
<1>1. /\ UNCHANGED <<now, row, keys, changes>>
      /\ installs' = Append(installs, new) /\ codes[k].used = 0
      /\ \A m \in DOMAIN installs : installs[m].domain = row.domain => installs[m].revoked
    BY DEF Exchanges, Unrevoked
<1>2. /\ k \in 1 .. Len(codes) /\ codes[k] \in Code(Len(installs)) /\ n \in Nat
      /\ codes \in Seq(Code(Len(installs))) /\ installs \in Seq(Installation(Len(codes)))
    BY Bounds DEF EnrollmentInv, RowsTyped
<1>3. new \in Installation(Len(codes)) /\ new.domain = row.domain /\ new.code = k
    BY <1>2 DEF Installation, EnrollmentInv, RowsTyped
<1> HIDE DEF new
<1>4. /\ installs' \in Seq(Installation(Len(codes))) /\ Len(installs') = n
      /\ \A m \in 1 .. Len(installs) : installs'[m] = installs[m]
      /\ installs'[n] = new
    BY <1>1, <1>2, <1>3, AppendProperties
<1>5. codes' = [codes EXCEPT ![k] = used]
    BY <1>4 DEF Exchanges
<1>6. used \in Code(n) /\ used.used = n
  <2>1. /\ codes[k].domain \in Domains /\ codes[k].expires \in Nat /\ codes[k].revoked \in BOOLEAN
        /\ codes[k] = [domain |-> codes[k].domain, expires |-> codes[k].expires,
                       used |-> codes[k].used, revoked |-> codes[k].revoked]
      BY <1>2 DEF Code
  <2>2. n \in 0 .. n
      BY <1>2
  <2> HIDE DEF n
  <2>3. used = [domain |-> codes[k].domain, expires |-> codes[k].expires, used |-> n,
                revoked |-> codes[k].revoked]
      BY <2>1
  <2> QED
      BY <2>1, <2>2, <2>3 DEF Code
<1>7. codes \in Seq(Code(n))
  <2>1. Code(Len(installs)) \subseteq Code(n)
      BY Bounds DEF Code
  <2> QED
      BY <1>2, <2>1, SeqMonotonic
<1> HIDE DEF used
<1>8. /\ codes' \in Seq(Code(n)) /\ Len(codes') = Len(codes)
      /\ \A i \in 1 .. Len(codes) : codes'[i] = IF i = k THEN used ELSE codes[i]
    BY <1>2, <1>5, <1>6, <1>7, ExceptSeq
<1>9. RowsTyped'
    BY <1>1, <1>4, <1>8 DEF EnrollmentInv, RowsTyped
<1>10. OneUnrevoked'
    BY <1>1, <1>3, <1>4, Bounds DEF EnrollmentInv, OneUnrevoked
<1>11. Remembered'
  <2>1. \A m \in 1 .. Len(installs) : /\ installs[m].code \in 1 .. Len(codes) /\ m # 0
                                      /\ codes[installs[m].code].used = m
      BY Bounds DEF EnrollmentInv, Remembered, Installation
  <2>2. \A m \in 1 .. n : m \in 1 .. Len(installs) \/ m = n
      BY Bounds
  <2> QED
      BY <1>1, <1>2, <1>3, <1>4, <1>6, <1>8, <2>1, <2>2 DEF Remembered
<1>12. PICK e \in {0, n} : site' = [site EXCEPT !.enrolling = e]
    BY <1>4 DEF Exchanges
<1>13. SiteTyped' /\ Answers' = Answers
  <2>1. /\ site.config \in 0 .. Len(installs) /\ site.stored \in Payload(Len(keys))
        /\ site.poll \in Poll(Len(keys))
      BY DEF EnrollmentInv, SiteTyped
  <2>2. /\ site.config \in 0 .. Len(installs') /\ e \in 0 .. Len(installs')
      BY <1>4, <1>12, <2>1, Bounds
  <2>3. site' = [config |-> site.config, enrolling |-> e, stored |-> site.stored, poll |-> site.poll]
      BY <1>12 DEF EnrollmentInv, SiteTyped
  <2> QED
      BY <1>1, <2>1, <2>2, <2>3 DEF SiteTyped, Answers
<1>14. ClockTyped' /\ KeysTyped' /\ OneActive'
    BY <1>1 DEF EnrollmentInv, ClockTyped, KeysTyped, OneActive
<1> QED
    BY <1>1, <1>9, <1>10, <1>11, <1>13, <1>14, Unserved DEF EnrollmentInv

LEMMA RevocationStep ==
    ASSUME EnrollmentInv, NEW n \in DOMAIN installs, RevokesInstallation(n) PROVE EnrollmentInv'
<1> DEFINE new == [installs[n] EXCEPT !.revoked = TRUE]
<1>1. UNCHANGED <<now, row, codes, keys, site, changes>> /\ Answers' = Answers
    BY DEF RevokesInstallation, Answers
<1>2. /\ n \in 1 .. Len(installs) /\ installs[n] \in Installation(Len(codes))
      /\ installs \in Seq(Installation(Len(codes)))
    BY Bounds DEF EnrollmentInv, RowsTyped
<1>3. /\ new \in Installation(Len(codes)) /\ new.revoked
      /\ new.domain = installs[n].domain /\ new.code = installs[n].code
    BY <1>2 DEF Installation
<1>4. installs' = [installs EXCEPT ![n] = new]
    BY DEF RevokesInstallation
<1> HIDE DEF new
<1>5. /\ installs' \in Seq(Installation(Len(codes))) /\ Len(installs') = Len(installs)
      /\ \A i \in 1 .. Len(installs) : installs'[i] = IF i = n THEN new ELSE installs[i]
    BY <1>2, <1>3, <1>4, ExceptSeq
<1>6. RowsTyped'
    BY <1>1, <1>5 DEF EnrollmentInv, RowsTyped
<1>7. OneUnrevoked' /\ Remembered'
    BY <1>1, <1>3, <1>5 DEF EnrollmentInv, OneUnrevoked, Remembered
<1>8. ClockTyped' /\ KeysTyped' /\ SiteTyped' /\ OneActive'
    BY <1>1, <1>5 DEF EnrollmentInv, ClockTyped, KeysTyped, SiteTyped, OneActive
<1> QED
    BY <1>1, <1>6, <1>7, <1>8, Unserved DEF EnrollmentInv

LEMMA RowStep ==
    ASSUME EnrollmentInv, ChangesRow PROVE EnrollmentInv'
<1>1. UNCHANGED <<now, codes, installs, keys, site>> /\ Answers' = Answers
    BY DEF ChangesRow, Answers
<1>2. row' \in [domain : Domains, shared : BOOLEAN, archived : BOOLEAN]
    BY DEF ChangesRow, EnrollmentInv, RowsTyped
<1>3. ClockTyped'
    BY EnrollmentAssumption DEF ChangesRow, EnrollmentInv, ClockTyped
<1>4. RowsTyped' /\ KeysTyped' /\ SiteTyped' /\ OneUnrevoked' /\ Remembered' /\ OneActive'
    BY <1>1, <1>2 DEF EnrollmentInv, RowsTyped, KeysTyped, SiteTyped, OneUnrevoked, Remembered, OneActive
<1> QED
    BY <1>1, <1>3, <1>4, Unserved DEF EnrollmentInv

-----------------------------------------------------------------------------
(* Signing keys                                                            *)

(* A key that is in use is as it was, or was active and is replaced now,   *)
(* or retired when it was over.                                            *)
Kept(k) ==
    \/ keys'[k] = keys[k]
    \/ keys[k].active /\ keys'[k] = [keys[k] EXCEPT !.active = FALSE, !.rotated = now]
    \/ /\ ~keys[k].active /\ ~keys[k].retired
       /\ \E emergency \in BOOLEAN :
             /\ emergency \/ Over(k)
             /\ keys'[k] = [keys[k] EXCEPT !.retired = TRUE, !.emergency = emergency]

LEMMA KeptServed ==
    ASSUME EnrollmentInv, now' = now, NEW payload \in Answers, payload.key \in 0 .. Len(keys),
           payload.expires \in Nat,
           \A k \in 1 .. Len(keys) : Kept(k)
    PROVE  payload.key # 0 => /\ payload.expires <= now' + Ttl
                              /\ ~keys'[payload.key].active =>
                                     payload.expires <= keys'[payload.key].rotated + Ttl
                              /\ keys'[payload.key].retired =>
                                     keys'[payload.key].emergency \/ Over(payload.key)'
<1> SUFFICES ASSUME payload.key # 0
             PROVE  /\ payload.expires <= now' + Ttl
                    /\ ~keys'[payload.key].active =>
                           payload.expires <= keys'[payload.key].rotated + Ttl
                    /\ keys'[payload.key].retired =>
                           keys'[payload.key].emergency \/ Over(payload.key)'
    OBVIOUS
<1> DEFINE k == payload.key
<1>1. k \in 1 .. Len(keys)
    BY Bounds
<1>2. /\ keys[k] \in Key /\ payload.expires <= now + Ttl
      /\ ~keys[k].active => payload.expires <= keys[k].rotated + Ttl
      /\ keys[k].retired => keys[k].emergency \/ Over(k)
    BY <1>1, Bounds DEF EnrollmentInv, Served
<1>7. keys[k].active => ~keys[k].retired
    BY <1>1 DEF EnrollmentInv, OneActive
<1>3. Kept(k)
    BY <1>1
<1> HIDE DEF k
<1>4. CASE keys'[k] = keys[k]
    BY <1>2, <1>4 DEF Over, k
<1>5. CASE keys[k].active /\ keys'[k] = [keys[k] EXCEPT !.active = FALSE, !.rotated = now]
  <2>1. keys'[k].active = FALSE /\ keys'[k].rotated = now /\ keys'[k].retired = keys[k].retired
      BY <1>2, <1>5 DEF Key
  <2> QED
      BY <1>2, <1>5, <1>7, <2>1 DEF k
<1>6. ASSUME ~keys[k].active, NEW emergency \in BOOLEAN, emergency \/ Over(k),
             keys'[k] = [keys[k] EXCEPT !.retired = TRUE, !.emergency = emergency]
      PROVE  /\ payload.expires <= now' + Ttl
             /\ ~keys'[k].active => payload.expires <= keys'[k].rotated + Ttl
             /\ keys'[k].retired => keys'[k].emergency \/ Over(k)'
  <2>1. /\ keys'[k].active = keys[k].active /\ keys'[k].rotated = keys[k].rotated
        /\ keys'[k].expires = keys[k].expires /\ keys'[k].emergency = emergency
      BY <1>2, <1>6 DEF Key
  <2> QED
      BY <1>2, <1>6, <2>1 DEF Over
<1> QED
    BY <1>3, <1>4, <1>5, <1>6 DEF Kept, k

(* The list grows at most by a key that is active.                         *)
LEMMA KeyGrowth ==
    ASSUME EnrollmentInv, UNCHANGED <<now, row, codes, installs, site, changes>>,
           keys' \in Seq(Key), Len(keys') \in Nat, Len(keys) <= Len(keys'),
           \A k \in 1 .. Len(keys) : Kept(k), OneActive'
    PROVE  EnrollmentInv'
<1>1. ClockTyped' /\ RowsTyped' /\ OneUnrevoked' /\ Remembered' /\ KeysTyped' /\ Answers' = Answers
    BY DEF EnrollmentInv, ClockTyped, RowsTyped, OneUnrevoked, Remembered, KeysTyped, Answers
<1>2. \A payload \in Answers : payload.key \in 0 .. Len(keys) /\ payload.expires \in Nat
    BY DEF EnrollmentInv, SiteTyped, Payload, Poll, Answers
<1>3. \A payload \in Answers' : Served(payload)'
    BY <1>1, <1>2, KeptServed DEF Served
<1>4. SiteTyped'
  <2>1. 0 .. Len(keys) \subseteq 0 .. Len(keys')
      BY Bounds
  <2>2. Payload(Len(keys)) \subseteq Payload(Len(keys'))
      BY <2>1 DEF Payload
  <2>3. Poll(Len(keys)) \subseteq Poll(Len(keys'))
      BY <2>2 DEF Poll
  <2> QED
      BY <2>2, <2>3 DEF EnrollmentInv, SiteTyped
<1> QED
    BY <1>1, <1>3, <1>4 DEF EnrollmentInv

LEMMA KeyStep ==
    ASSUME EnrollmentInv,
           \/ InitializesKey \/ RotatesKey
           \/ \E k \in DOMAIN keys, emergency \in BOOLEAN : RetiresKey(k, emergency)
    PROVE  EnrollmentInv'
<1>1. NewKey \in Key /\ keys \in Seq(Key) /\ NewKey.active /\ ~NewKey.retired
    BY Bounds DEF NewKey, Key, EnrollmentInv, KeysTyped
<1>2. CASE InitializesKey
  <2>1. /\ keys' = Append(keys, NewKey) /\ \A k \in 1 .. Len(keys) : ~keys[k].active
        /\ UNCHANGED <<now, row, codes, installs, site, changes>>
      BY <1>2, Bounds DEF InitializesKey, ActiveKeys
  <2>2. /\ keys' \in Seq(Key) /\ Len(keys') = Len(keys) + 1 /\ keys'[Len(keys) + 1] = NewKey
        /\ \A k \in 1 .. Len(keys) : keys'[k] = keys[k]
      BY <1>1, <2>1, AppendProperties
  <2>3. OneActive'
      BY <1>1, <2>1, <2>2, Bounds DEF OneActive
  <2> QED
      BY <2>1, <2>2, <2>3, Bounds, KeyGrowth DEF Kept
<1>3. CASE RotatesKey
  <2>1. PICK k \in ActiveKeys :
          keys' = Append([keys EXCEPT ![k].active = FALSE, ![k].rotated = now], NewKey)
      BY <1>3 DEF RotatesKey
  <2>2. UNCHANGED <<now, row, codes, installs, site, changes>>
      BY <1>3 DEF RotatesKey
  <2>3. k \in 1 .. Len(keys) /\ keys[k].active /\ keys[k] \in Key
      BY Bounds DEF ActiveKeys
  <2> DEFINE old == [keys[k] EXCEPT !.active = FALSE, !.rotated = now]
             replaced == [keys EXCEPT ![k] = old]
  <2>4. old \in Key /\ old.active = FALSE
      BY <2>3, Bounds DEF Key
  <2>5. keys' = Append(replaced, NewKey)
      BY <1>1, <2>1, <2>3, Bounds
  <2>6. old = [keys[k] EXCEPT !.active = FALSE, !.rotated = now]
      OBVIOUS
  <2> HIDE DEF old
  <2>7. /\ replaced \in Seq(Key) /\ Len(replaced) = Len(keys)
        /\ \A i \in 1 .. Len(keys) : replaced[i] = IF i = k THEN old ELSE keys[i]
      BY <1>1, <2>3, <2>4, ExceptSeq
  <2> HIDE DEF replaced
  <2>8. /\ keys' \in Seq(Key) /\ Len(keys') = Len(keys) + 1 /\ keys'[Len(keys) + 1] = NewKey
        /\ \A i \in 1 .. Len(keys) : keys'[i] = IF i = k THEN old ELSE keys[i]
      BY <1>1, <2>5, <2>7, AppendProperties
  <2>9. OneActive'
    <3>1. \A i \in 1 .. Len(keys) : keys[i].active => i = k
        BY <2>3 DEF EnrollmentInv, OneActive
    <3>2. \A i \in 1 .. Len(keys) : ~keys'[i].active
        BY <2>4, <2>8, <3>1
    <3> QED
        BY <1>1, <2>8, <3>2, Bounds DEF OneActive
  <2>10. \A i \in 1 .. Len(keys) : Kept(i)
      BY <2>3, <2>6, <2>8 DEF Kept
  <2> QED
      BY <2>2, <2>8, <2>9, <2>10, Bounds, KeyGrowth
<1>4. ASSUME NEW k \in DOMAIN keys, NEW emergency \in BOOLEAN, RetiresKey(k, emergency)
      PROVE  EnrollmentInv'
  <2> DEFINE new == [keys[k] EXCEPT !.retired = TRUE, !.emergency = emergency]
  <2>1. /\ UNCHANGED <<now, row, codes, installs, site, changes>>
        /\ ~keys[k].active /\ ~keys[k].retired /\ (emergency \/ Over(k))
        /\ k \in 1 .. Len(keys) /\ keys[k] \in Key
      BY <1>4, Bounds DEF RetiresKey
  <2>2. new \in Key /\ ~new.active
      BY <2>1 DEF Key
  <2>3. keys' = [keys EXCEPT ![k] = new]
      BY <1>1, <1>4, <2>1, Bounds DEF RetiresKey
  <2>4. new = [keys[k] EXCEPT !.retired = TRUE, !.emergency = emergency]
      OBVIOUS
  <2> HIDE DEF new
  <2>5. /\ keys' \in Seq(Key) /\ Len(keys') = Len(keys)
        /\ \A i \in 1 .. Len(keys) : keys'[i] = IF i = k THEN new ELSE keys[i]
      BY <1>1, <2>1, <2>2, <2>3, ExceptSeq
  <2>6. OneActive'
      BY <2>2, <2>5 DEF EnrollmentInv, OneActive
  <2>7. \A i \in 1 .. Len(keys) : Kept(i)
      BY <2>1, <2>4, <2>5 DEF Kept
  <2> QED
      BY <2>1, <2>5, <2>6, <2>7, Bounds, KeyGrowth
<1> QED
    BY <1>2, <1>3, <1>4

-----------------------------------------------------------------------------
(* The plugin, and time                                                    *)

(* What the site holds next is what it held, nothing, or, when its poll is *)
(* answered, a payload signed now.                                         *)
LEMMA SiteGrowth ==
    ASSUME EnrollmentInv, UNCHANGED <<now, server>>, SiteTyped',
           \A payload \in Answers' : \/ payload \in Answers \/ payload.key = 0
                                     \/ payload.key \in Signing /\ payload.expires = now + Ttl
    PROVE  EnrollmentInv'
<1>1. UNCHANGED <<now, row, codes, installs, keys, changes>>
    BY DEF server
<1>2. ClockTyped' /\ RowsTyped' /\ OneUnrevoked' /\ Remembered' /\ KeysTyped' /\ OneActive'
    BY <1>1 DEF EnrollmentInv, ClockTyped, RowsTyped, OneUnrevoked, Remembered, KeysTyped, OneActive
<1>3. ASSUME NEW payload \in Answers' PROVE Served(payload)'
  <2>1. CASE payload \in Answers
      BY <1>1, <2>1 DEF EnrollmentInv, Served, Over
  <2>2. CASE payload.key = 0
      BY <2>2 DEF Served
  <2>3. CASE payload.key \in Signing /\ payload.expires = now + Ttl
    <3>1. payload.key \in 1 .. Len(keys) /\ keys[payload.key].active /\ ~keys[payload.key].retired
        BY <2>3, Bounds DEF Signing, ActiveKeys, EnrollmentInv, OneActive
    <3> QED
        BY <1>1, <2>3, <3>1, Bounds DEF Served
  <2> QED
      BY <1>3, <2>1, <2>2, <2>3
<1> QED
    BY <1>2, <1>3 DEF EnrollmentInv

LEMMA PluginStep ==
    ASSUME EnrollmentInv, Plugin PROVE EnrollmentInv'
<1> DEFINE i == Len(installs)
           n == Len(keys)
<1>1. UNCHANGED <<now, server>> /\ Len(installs') = i /\ Len(keys') = n /\ i \in Nat /\ n \in Nat
    BY Bounds DEF Plugin, Enrolls, PollFetchesKeys, PollAsks, PollStores, PollFails, Disconnects, server
<1>2. /\ site.config \in 0 .. i /\ site.enrolling \in 0 .. i
      /\ site.stored \in Payload(n) /\ site.poll \in Poll(n)
      /\ site = [config |-> site.config, enrolling |-> site.enrolling,
                 stored |-> site.stored, poll |-> site.poll]
    BY DEF EnrollmentInv, SiteTyped
<1>3. /\ NoPayload \in Payload(n) /\ NoPayload.key = 0
      /\ IdlePoll \in Poll(n) /\ IdlePoll.answer = NoPayload
    BY <1>1 DEF NoPayload, IdlePoll, Payload, Poll
<1>4. /\ site.poll.config \in Nat /\ site.poll.keys \in SUBSET Nat /\ site.poll.answer \in Payload(n)
      /\ site.poll = [pc |-> site.poll.pc, config |-> site.poll.config, keys |-> site.poll.keys,
                      answer |-> site.poll.answer]
    BY <1>2 DEF Poll
<1>5. ASSUME NEW config \in 0 .. i, NEW enrolling \in 0 .. i, NEW stored \in Payload(n),
             NEW poll \in Poll(n), 
             site' = [config |-> config, enrolling |-> enrolling, stored |-> stored, poll |-> poll],
             \A payload \in {stored, poll.answer} :
                \/ payload \in Answers \/ payload.key = 0
                \/ payload.key \in Signing /\ payload.expires = now + Ttl
      PROVE  EnrollmentInv'
  <2>1. SiteTyped' /\ Answers' = {stored, poll.answer}
      BY <1>1, <1>5 DEF SiteTyped, Answers
  <2> QED
      BY <1>1, <1>5, <2>1, SiteGrowth
<1>6. site.stored \in Answers /\ site.poll.answer \in Answers
    BY DEF Answers
<1> HIDE DEF i, n
<1>7. CASE Enrolls
  <2>1. site' = [config |-> site.enrolling, enrolling |-> 0, stored |-> NoPayload, poll |-> site.poll]
      BY <1>2, <1>7 DEF Enrolls
  <2> QED
      BY <1>1, <1>2, <1>3, <1>5, <1>6, <2>1
<1>8. CASE PollFetchesKeys
  <2> DEFINE poll == [pc |-> "keyed", config |-> site.config, keys |-> Eligible, answer |-> NoPayload]
  <2>1. site' = [config |-> site.config, enrolling |-> site.enrolling, stored |-> site.stored, poll |-> poll]
      BY <1>2, <1>8 DEF PollFetchesKeys, IdlePoll
  <2>2. poll \in Poll(n) /\ poll.answer = NoPayload
    <3>1. Eligible \in SUBSET Nat
        BY Bounds DEF Eligible, Signing, ActiveKeys
    <3>2. site.config \in Nat
        BY <1>1, <1>2
    <3> QED
        BY <1>3, <3>1, <3>2 DEF Poll
  <2> HIDE DEF poll
  <2> QED
      BY <1>1, <1>2, <1>3, <1>5, <1>6, <2>1, <2>2
<1>9. CASE PollAsks
  <2>1. PICK k \in Signing :
          site' = [site EXCEPT !.poll.pc = "answered",
                               !.poll.answer = [installation |-> site.poll.config, key |-> k,
                                                expires |-> now + Ttl]]
      BY <1>9 DEF PollAsks
  <2> DEFINE answer == [installation |-> site.poll.config, key |-> k, expires |-> now + Ttl]
             poll == [pc |-> "answered", config |-> site.poll.config, keys |-> site.poll.keys,
                      answer |-> answer]
  <2>2. site' = [config |-> site.config, enrolling |-> site.enrolling, stored |-> site.stored, poll |-> poll]
      BY <1>2, <1>4, <2>1
  <2>3. answer \in Payload(n) /\ answer.key = k /\ answer.expires = now + Ttl
    <3>1. k \in 0 .. n
        BY <1>1, Bounds DEF Signing, ActiveKeys, n
    <3> QED
        BY <1>4, <3>1, Bounds DEF Payload
  <2> HIDE DEF answer
  <2>4. poll \in Poll(n) /\ poll.answer = answer
      BY <1>4, <2>3 DEF Poll
  <2> HIDE DEF poll
  <2> QED
      BY <1>1, <1>2, <1>5, <1>6, <2>2, <2>3, <2>4
<1>10. CASE PollStores
  <2>1. PICK stored \in {site.stored, site.poll.answer} :
          site' = [config |-> site.config, enrolling |-> site.enrolling, stored |-> stored, poll |-> IdlePoll]
      BY <1>2, <1>10 DEF PollStores
  <2> QED
      BY <1>1, <1>2, <1>3, <1>4, <1>5, <1>6, <2>1
<1>11. CASE PollFails
  <2>1. site' = [config |-> site.config, enrolling |-> site.enrolling, stored |-> site.stored, poll |-> IdlePoll]
      BY <1>2, <1>11 DEF PollFails
  <2> QED
      BY <1>1, <1>2, <1>3, <1>5, <1>6, <2>1
<1>12. CASE Disconnects
  <2>1. site' = [config |-> 0, enrolling |-> site.enrolling, stored |-> NoPayload, poll |-> site.poll]
      BY <1>2, <1>12 DEF Disconnects
  <2> QED
      BY <1>1, <1>2, <1>3, <1>5, <1>6, <2>1
<1> QED
    BY <1>7, <1>8, <1>9, <1>10, <1>11, <1>12 DEF Plugin

LEMMA TickStep ==
    ASSUME EnrollmentInv, Tick PROVE EnrollmentInv'
<1>1. UNCHANGED <<row, codes, installs, keys, changes, site>> /\ now' = now + 1 /\ now < MaxTime
    BY DEF Tick, server
<1>2. ClockTyped'
    BY <1>1, EnrollmentAssumption DEF EnrollmentInv, ClockTyped
<1>3. /\ RowsTyped' /\ OneUnrevoked' /\ Remembered' /\ KeysTyped' /\ OneActive' /\ SiteTyped'
      /\ Answers' = Answers
    BY <1>1 DEF EnrollmentInv, RowsTyped, OneUnrevoked, Remembered, KeysTyped, OneActive, SiteTyped, Answers
<1>4. ASSUME NEW payload \in Answers PROVE Served(payload)'
  <2>1. payload.key \in 0 .. Len(keys) /\ payload.expires \in Nat
      BY DEF EnrollmentInv, SiteTyped, Payload, Poll, Answers
  <2>2. payload.key # 0 => keys[payload.key].expires \in Nat /\ keys[payload.key].rotated \in Nat
      BY <2>1, Bounds DEF Key
  <2>3. Served(payload) /\ Ttl \in Nat /\ Overlap \in Nat /\ now \in Nat
      BY <1>4, Bounds, EnrollmentAssumption DEF EnrollmentInv
  <2>4. payload.key # 0 /\ Over(payload.key) => Over(payload.key)'
      BY <1>1, <2>2, <2>3 DEF Over
  <2> HIDE DEF Over
  <2> QED
      BY <1>1, <2>1, <2>2, <2>3, <2>4 DEF Served
<1> QED
    BY <1>2, <1>3, <1>4 DEF EnrollmentInv

-----------------------------------------------------------------------------
LEMMA NextEnrollment == EnrollmentInv /\ [Next]_vars => EnrollmentInv'
<1> SUFFICES ASSUME EnrollmentInv, [Next]_vars PROVE EnrollmentInv'
    OBVIOUS
<1>1. CASE CreatesCode \/ \E k \in DOMAIN codes : RevokesCode(k)
    BY <1>1, CodeStep
<1>2. ASSUME NEW k \in DOMAIN codes, Exchanges(k) PROVE EnrollmentInv'
    BY <1>2, ExchangeStep
<1>3. ASSUME NEW n \in DOMAIN installs, RevokesInstallation(n) PROVE EnrollmentInv'
    BY <1>3, RevocationStep
<1>4. CASE ChangesRow
    BY <1>4, RowStep
<1>5. CASE InitializesKey \/ RotatesKey
           \/ \E k \in DOMAIN keys, emergency \in BOOLEAN : RetiresKey(k, emergency)
    BY <1>5, KeyStep
<1>6. CASE Plugin
    BY <1>6, PluginStep
<1>7. CASE Tick
    BY <1>7, TickStep
<1>8. CASE UNCHANGED vars
    BY <1>8 DEF vars, EnrollmentInv, ClockTyped, RowsTyped, OneUnrevoked, Remembered, KeysTyped,
                OneActive, SiteTyped, Answers, Served, Over
<1> QED
    BY <1>1, <1>2, <1>3, <1>4, <1>5, <1>6, <1>7, <1>8 DEF Next, Service

LEMMA AlwaysEnrollment == Spec => []EnrollmentInv
  BY InitEnrollment, NextEnrollment, PTL DEF Spec

(* Every variable keeps its shape, no row points at one that is not there, *)
(* and at most one signing key is active.                                  *)
THEOREM EnrollmentTyped == Spec => []EnrollmentTypeOK
<1>1. ASSUME EnrollmentInv PROVE EnrollmentTypeOK
  <2>1. Cardinality(ActiveKeys) <= 1
    <3>1. CASE ActiveKeys = {}
        BY <3>1, FS_EmptySet
    <3>2. CASE ActiveKeys # {}
      <4>1. PICK k \in ActiveKeys : TRUE
          BY <3>2
      <4>2. ActiveKeys = {k}
        <5>1. ASSUME NEW l \in ActiveKeys PROVE l = k
            BY <1>1, <4>1, Bounds DEF ActiveKeys, EnrollmentInv, OneActive
        <5> QED
            BY <4>1, <5>1
      <4>3. Cardinality({k}) = 1
          BY FS_Singleton
      <4> QED
          BY <4>2, <4>3
    <3> QED
        BY <3>1, <3>2
  <2>2. now \in 0 .. MaxTime /\ changes \in 0 .. MaxChanges
      BY <1>1 DEF EnrollmentInv, ClockTyped
  <2>3. /\ row \in [domain : Domains, shared : BOOLEAN, archived : BOOLEAN]
        /\ codes \in Seq([domain : Domains, expires : Nat, used : 0 .. Len(installs), revoked : BOOLEAN])
        /\ installs \in Seq([domain : Domains, revoked : BOOLEAN, code : DOMAIN codes])
      BY <1>1, Bounds DEF EnrollmentInv, RowsTyped, Code, Installation
  <2>4. keys \in Seq([active : BOOLEAN, expires : Nat, rotated : Nat, retired : BOOLEAN,
                      emergency : BOOLEAN])
      BY <1>1 DEF EnrollmentInv, KeysTyped, Key
  <2>5. /\ site.config \in 0 .. Len(installs) /\ site.enrolling \in 0 .. Len(installs)
        /\ site.stored.key \in 0 .. Len(keys) /\ site.poll.pc \in {"idle", "keyed", "answered"}
      BY <1>1 DEF EnrollmentInv, SiteTyped, Payload, Poll
  <2> QED
      BY <2>1, <2>2, <2>3, <2>4, <2>5 DEF EnrollmentTypeOK
<1> QED
    BY <1>1, AlwaysEnrollment, PTL

(* authenticateInstallation never accepts two credentials at once: a       *)
(* domain keeps at most one installation that is not revoked, whatever     *)
(* becomes of the row in between (exchangeEnrollmentCode).                 *)
THEOREM OneCredential == Spec => []OneAuthenticates
<1>1. EnrollmentInv => OneAuthenticates
    BY Bounds DEF EnrollmentInv, OneUnrevoked, OneAuthenticates, Authenticates
<1> QED
    BY <1>1, AlwaysEnrollment, PTL

(* A code makes one installation at most (used_installation_id), though    *)
(* its answer is lost or its installation revoked at once.                 *)
THEOREM CodeSpentOnce == Spec => []CodeOnce
<1>1. EnrollmentInv => CodeOnce
    BY Bounds DEF EnrollmentInv, Remembered, CodeOnce
<1> QED
    BY <1>1, AlwaysEnrollment, PTL

(* An entitlement that is still valid is verifiable with the keys served   *)
(* now (eligiblePublicKeys), whatever was rotated and retired since it was *)
(* signed: an entitlement lives no longer than a replaced key is served.   *)
THEOREM EntitlementVerifiable == Spec => []FreshVerifiable
<1>1. ASSUME EnrollmentInv PROVE FreshVerifiable
  <2> SUFFICES ASSUME NEW payload \in {site.stored, site.poll.answer},
                      payload.key # 0, payload.expires > now
               PROVE  \/ payload.key \in Eligible
                      \/ keys[payload.key].expires <= now \/ keys[payload.key].emergency
      BY DEF FreshVerifiable
  <2>1. payload \in Answers /\ payload.key \in 1 .. Len(keys) /\ payload.expires \in Nat
    <3>1. payload \in Payload(Len(keys))
        BY <1>1 DEF EnrollmentInv, SiteTyped, Poll
    <3> QED
        BY <1>1, <3>1, Bounds DEF Payload, Answers
  <2>2. /\ ~keys[payload.key].active => payload.expires <= keys[payload.key].rotated + Ttl
        /\ keys[payload.key].retired => keys[payload.key].emergency \/ Over(payload.key)
        /\ keys[payload.key].expires \in Nat /\ keys[payload.key].rotated \in Nat
        /\ payload.key \in DOMAIN keys /\ now \in Nat
      BY <1>1, <2>1, Bounds DEF EnrollmentInv, Served, Key
  <2>3. ~keys[payload.key].active => keys[payload.key].rotated + Overlap > now
      BY <2>1, <2>2, EnrollmentAssumption
  <2>4. keys[payload.key].active /\ keys[payload.key].expires > now => payload.key \in Eligible
      BY <2>2 DEF Eligible, Signing, ActiveKeys
  <2>5. CASE ~keys[payload.key].active /\ keys[payload.key].expires > now /\ ~keys[payload.key].emergency
    <3>1. ~Over(payload.key)
        BY <2>2, <2>3, <2>5, EnrollmentAssumption DEF Over
    <3> QED
        BY <2>2, <2>3, <2>5, <3>1 DEF Eligible
  <2> QED
      BY <2>2, <2>4, <2>5
<1> QED
    BY <1>1, AlwaysEnrollment, PTL

-----------------------------------------------------------------------------
(* Enforcement (Enforcement.tla): nobody is redirected on old word of the  *)
(* billing service, for any sites, requests, ages, failed reloads and      *)
(* restarts.                                                               *)
(*                                                                         *)
(* What a stored snapshot or an answer on its way says of a site was so no *)
(* longer ago than its age: the age of an answer counts from when billing  *)
(* gave it, and a restart loses only answers.                              *)

(* What lists these sites at this age is not older than it says.           *)
NotOlder(blocks, age) == \A s \in blocks : s \in suspended \/ ago[s] <= age

EnforcementInv ==
    /\ EnforcementTypeOK
    /\ NotOlder(snapshot.blocks, snapshot.age)
    /\ \A a \in Actors : actor[a].pc = "answered" => NotOlder(actor[a].blocks, actor[a].age)

-----------------------------------------------------------------------------
(* Time makes everything older at the same pace, up to the same limit.     *)
LEMMA OlderKeepsOrder ==
    \A m, n \in 0 .. Stale : Older(m) \in 0 .. Stale /\ (m <= n => Older(m) <= Older(n))
  BY EnforcementAssumption DEF Older, Stale

(* What a plan takes from a view is in the view, and the view is fresh.    *)
LEMMA PlanIsFresh ==
    ASSUME NEW view, NEW config, NEW s \in Plan(view, config)
    PROVE  s \in view.blocks /\ view.age <= MaxAge
  BY DEF Plan

LEMMA PlanTyped ==
    ASSUME NEW view, NEW config, view.blocks \subseteq Sites
    PROVE  Plan(view, config) \subseteq Sites
  BY DEF Plan

(* applyPlan keeps types, and answers of other actors.                     *)
LEMMA AppliesKeeps ==
    ASSUME EnforcementTypeOK, NEW a \in Actors, NEW plan \in SUBSET Sites, NEW d \in BOOLEAN,
           Applies(a, plan, d)
    PROVE  /\ file' \subseteq Sites /\ actor' \in [Actors -> Tasks] /\ disabled' \in BOOLEAN
           /\ actor'[a].pc # "answered" /\ \A b \in Actors \ {a} : actor'[b] = actor[b]
  BY DEF Applies, EnforcementTypeOK, Reloads, Idle, Tasks


-----------------------------------------------------------------------------
LEMMA EnforcementStarts == EnforcementInit => EnforcementInv
<1> SUFFICES ASSUME EnforcementInit PROVE EnforcementInv
  OBVIOUS
<1>1. Stale \in 0 .. Stale /\ Idle \in Tasks /\ Idle.pc # "answered"
  BY EnforcementAssumption DEF Stale, Idle, Tasks
<1>2. snapshot \in [blocks : SUBSET Sites, age : 0 .. Stale] /\ snapshot.blocks = {}
  BY <1>1 DEF EnforcementInit
<1>3. settings \in [enabled : BOOLEAN, pilots : SUBSET Sites] /\ ~settings.enabled
  BY DEF EnforcementInit
<1>4. actor \in [Actors -> Tasks] /\ \A a \in Actors : actor[a].pc # "answered"
  BY <1>1 DEF EnforcementInit
<1>5. EnforcementTypeOK
  <2>1. /\ suspended \subseteq Sites /\ ago \in [Sites -> 0 .. Stale]
        /\ file \subseteq Sites /\ live \subseteq Sites
        /\ faults \in 0 .. MaxFaults /\ crashes \in 0 .. MaxCrashes
    BY <1>1, EnforcementAssumption DEF EnforcementInit
  <2>2. observing \in BOOLEAN /\ started \in BOOLEAN /\ disabled \in BOOLEAN
    BY DEF EnforcementInit
  <2> QED BY <1>2, <1>3, <1>4, <2>1, <2>2 DEF EnforcementTypeOK
<1> QED BY <1>2, <1>4, <1>5 DEF EnforcementInv, NotOlder

(* Steps of one actor that leave billing, the snapshot and the settings.   *)
LEMMA CallKeeps ==
    ASSUME EnforcementInv, NEW a \in Actors,
           Reconciles(a) \/ Reloaded(a) \/ ReloadFails(a) \/ Undone(a) \/ RefreshFails(a),
           started' \in BOOLEAN
    PROVE  EnforcementInv'
<1>1. /\ UNCHANGED <<suspended, ago, snapshot, observing, settings>>
      /\ file' \subseteq Sites /\ live' \subseteq Sites /\ disabled' \in BOOLEAN
      /\ faults' \in 0 .. MaxFaults /\ crashes' \in 0 .. MaxCrashes
      /\ actor' \in [Actors -> Tasks] /\ actor'[a].pc # "answered"
      /\ \A b \in Actors \ {a} : actor'[b] = actor[b]
  <2>1. CASE Reconciles(a)
    <3>1. Plan(snapshot, settings) \in SUBSET Sites
      BY PlanTyped DEF EnforcementInv, EnforcementTypeOK
    <3>2. Applies(a, Plan(snapshot, settings), FALSE)
      BY <2>1 DEF Reconciles
    <3> QED BY <2>1, <3>1, <3>2, AppliesKeeps DEF Reconciles, EnforcementInv, EnforcementTypeOK, billing, bounds
  <2>2. CASE Reloaded(a)
    BY <2>2 DEF Reloaded, EnforcementInv, EnforcementTypeOK, billing, bounds, Idle, Tasks
  <2>3. CASE ReloadFails(a)
    <3>1. actor[a].previous \subseteq Sites
      BY <2>3 DEF ReloadFails, EnforcementInv, EnforcementTypeOK, Tasks
    <3>2. faults' \in 0 .. MaxFaults
      BY <2>3, EnforcementAssumption DEF ReloadFails, EnforcementInv, EnforcementTypeOK
    <3> QED BY <2>3, <3>1, <3>2 DEF ReloadFails, EnforcementInv, EnforcementTypeOK, billing, Tasks
  <2>4. CASE Undone(a)
    <3>1. faults' \in 0 .. MaxFaults
      BY <2>4, EnforcementAssumption DEF Undone, EnforcementInv, EnforcementTypeOK
    <3> QED BY <2>4, <3>1 DEF Undone, EnforcementInv, EnforcementTypeOK, billing, Idle, Tasks
  <2>5. CASE RefreshFails(a)
    BY <2>5 DEF RefreshFails, EnforcementInv, EnforcementTypeOK, billing, bounds, Idle, Tasks
  <2> QED BY <2>1, <2>2, <2>3, <2>4, <2>5
<1>2. EnforcementTypeOK'
  BY <1>1 DEF EnforcementInv, EnforcementTypeOK
<1>3. NotOlder(snapshot.blocks, snapshot.age)'
  BY <1>1 DEF EnforcementInv, NotOlder
<1>4. ASSUME NEW b \in Actors, actor'[b].pc = "answered"
      PROVE  NotOlder(actor[b].blocks, actor[b].age)'
  <2>1. b # a
    BY <1>1, <1>4
  <2> QED BY <1>1, <1>4, <2>1 DEF EnforcementInv, NotOlder
<1> QED BY <1>2, <1>3, <1>4 DEF EnforcementInv

(* The billing service changes its mind, and time passes.                  *)
LEMMA WorldKeeps ==
    ASSUME EnforcementInv, Changes \/ FeedAges
    PROVE  EnforcementInv'
<1>1. CASE Changes
  <2> PICK s \in Sites :
        /\ suspended' = IF s \in suspended THEN suspended \ {s} ELSE suspended \cup {s}
        /\ ago' = [ago EXCEPT ![s] = 0]
    BY <1>1 DEF Changes
  <2>1. UNCHANGED <<snapshot, observing, settings, file, live, actor, started, disabled, faults, crashes>>
    BY <1>1 DEF Changes, bounds
  <2>2. EnforcementTypeOK'
    BY <2>1, EnforcementAssumption DEF EnforcementInv, EnforcementTypeOK, Stale
  <2>3. ASSUME NEW blocks \in SUBSET Sites, NEW age \in 0 .. Stale, NotOlder(blocks, age)
        PROVE  \A t \in blocks : t \in suspended' \/ ago'[t] <= age
    BY <2>3, EnforcementAssumption DEF EnforcementInv, EnforcementTypeOK, NotOlder, Stale
  <2>4. NotOlder(snapshot.blocks, snapshot.age)'
    BY <2>1, <2>3 DEF EnforcementInv, EnforcementTypeOK, NotOlder
  <2>5. ASSUME NEW b \in Actors, actor'[b].pc = "answered"
        PROVE  NotOlder(actor[b].blocks, actor[b].age)'
    <3>1. actor[b].pc = "answered" /\ actor[b].blocks \in SUBSET Sites /\ actor[b].age \in 0 .. Stale
      BY <2>1, <2>5 DEF EnforcementInv, EnforcementTypeOK, Tasks
    <3> QED BY <2>1, <2>3, <3>1 DEF EnforcementInv, NotOlder
  <2> QED BY <2>2, <2>4, <2>5 DEF EnforcementInv
<1>2. CASE FeedAges
  <2>1. UNCHANGED <<suspended, observing, settings, file, live, started, disabled, faults, crashes>>
    BY <1>2 DEF FeedAges, bounds
  <2>2. ago' \in [Sites -> 0 .. Stale]
    BY <1>2, OlderKeepsOrder, EnforcementAssumption DEF FeedAges, EnforcementInv, EnforcementTypeOK, Stale
  <2>3. /\ snapshot' \in [blocks : SUBSET Sites, age : 0 .. Stale]
        /\ snapshot'.blocks = snapshot.blocks /\ snapshot'.age = Older(snapshot.age)
    BY <1>2, OlderKeepsOrder DEF FeedAges, EnforcementInv, EnforcementTypeOK
  <2>4. ASSUME NEW b \in Actors
        PROVE  /\ actor'[b] \in Tasks
               /\ actor'[b].pc = "answered" =>
                    /\ actor[b].pc = "answered" /\ actor[b].age \in 0 .. Stale
                    /\ actor[b].blocks \in SUBSET Sites
                    /\ actor'[b].blocks = actor[b].blocks /\ actor'[b].age = Older(actor[b].age)
    <3>1. actor'[b] = Aged(actor[b]) /\ actor[b] \in Tasks
      BY <1>2 DEF FeedAges, EnforcementInv, EnforcementTypeOK
    <3>2. CASE actor[b].pc = "answered"
      <4>1. actor[b] \in [pc : {"answered"}, blocks : SUBSET Sites, age : 0 .. Stale]
        BY <3>1, <3>2 DEF Tasks
      <4>2. actor'[b] = [actor[b] EXCEPT !.age = Older(actor[b].age)]
        BY <3>1, <3>2 DEF Aged
      <4>3. Older(actor[b].age) \in 0 .. Stale
        BY <4>1, OlderKeepsOrder
      <4>4. actor'[b] \in [pc : {"answered"}, blocks : SUBSET Sites, age : 0 .. Stale]
        BY <4>1, <4>2, <4>3
      <4> QED BY <3>2, <4>1, <4>2, <4>4 DEF Tasks
    <3>3. CASE actor[b].pc # "answered"
      BY <3>1, <3>3 DEF Aged
    <3> QED BY <3>2, <3>3
  <2>5. ASSUME NEW blocks \in SUBSET Sites, NEW age \in 0 .. Stale, NotOlder(blocks, age)
        PROVE  \A t \in blocks : t \in suspended' \/ ago'[t] <= Older(age)
    <3> SUFFICES ASSUME NEW t \in blocks, t \notin suspended
                 PROVE  ago'[t] <= Older(age)
      BY <2>1
    <3>1. ago[t] \in 0 .. Stale /\ ago[t] <= age
      BY <2>5 DEF NotOlder, EnforcementInv, EnforcementTypeOK
    <3>2. ago'[t] = Older(ago[t])
      BY <1>2 DEF FeedAges
    <3> QED BY <3>1, <3>2, OlderKeepsOrder
  <2>6. EnforcementTypeOK'
    <3>1. actor' \in [Actors -> Tasks]
      BY <1>2, <2>4 DEF FeedAges
    <3> QED BY <2>1, <2>2, <2>3, <3>1 DEF EnforcementInv, EnforcementTypeOK
  <2>7. NotOlder(snapshot.blocks, snapshot.age)'
    <3>1. snapshot.blocks \in SUBSET Sites /\ snapshot.age \in 0 .. Stale
      BY DEF EnforcementInv, EnforcementTypeOK
    <3>2. \A t \in snapshot.blocks : t \in suspended' \/ ago'[t] <= Older(snapshot.age)
      BY <2>5, <3>1 DEF EnforcementInv
    <3> QED BY <2>3, <3>2 DEF NotOlder
  <2>8. ASSUME NEW b \in Actors, actor'[b].pc = "answered"
        PROVE  NotOlder(actor[b].blocks, actor[b].age)'
    BY <2>4, <2>5, <2>8 DEF EnforcementInv, NotOlder
  <2> QED BY <2>6, <2>7, <2>8 DEF EnforcementInv
<1> QED BY <1>1, <1>2
(* An answer is asked for, given and stored.                               *)
LEMMA RefreshKeeps ==
    ASSUME EnforcementInv, NEW a \in Actors, Refreshes(a) \/ FeedAnswers(a) \/ Stores(a)
    PROVE  EnforcementInv'
<1>1. CASE Refreshes(a) \/ FeedAnswers(a)
  <2>1. UNCHANGED <<suspended, ago, snapshot, observing, settings, file, live, started,
                    disabled, faults, crashes>>
    BY <1>1 DEF Refreshes, FeedAnswers, billing, bounds
  <2>2. /\ actor' \in [Actors -> Tasks] /\ \A b \in Actors \ {a} : actor'[b] = actor[b]
        /\ actor'[a].pc = "answered" => NotOlder(actor'[a].blocks, actor'[a].age)
    <3>1. CASE Refreshes(a)
      BY <3>1 DEF Refreshes, Begin, EnforcementInv, EnforcementTypeOK, Tasks
    <3>2. CASE FeedAnswers(a)
      <4> DEFINE task == [pc |-> "answered", blocks |-> suspended, age |-> 0]
      <4>1. actor' = [actor EXCEPT ![a] = task]
        BY <3>2 DEF FeedAnswers
      <4>2. 0 \in 0 .. Stale /\ suspended \in SUBSET Sites
        BY EnforcementAssumption DEF Stale, EnforcementInv, EnforcementTypeOK
      <4>3. task \in Tasks
        BY <4>2 DEF Tasks
      <4> HIDE DEF task
      <4>4. /\ actor' \in [Actors -> Tasks] /\ \A b \in Actors \ {a} : actor'[b] = actor[b]
            /\ actor'[a] = task
        BY <4>1, <4>3 DEF EnforcementInv, EnforcementTypeOK
      <4>5. NotOlder(task.blocks, task.age)
        BY DEF task, NotOlder
      <4> QED BY <4>4, <4>5
    <3> QED BY <1>1, <3>1, <3>2
  <2>3. EnforcementTypeOK'
    BY <2>1, <2>2 DEF EnforcementInv, EnforcementTypeOK
  <2>4. NotOlder(snapshot.blocks, snapshot.age)'
    BY <2>1 DEF EnforcementInv, NotOlder
  <2>5. ASSUME NEW b \in Actors, actor'[b].pc = "answered"
        PROVE  NotOlder(actor[b].blocks, actor[b].age)'
    BY <2>1, <2>2, <2>5 DEF EnforcementInv, NotOlder
  <2> QED BY <2>3, <2>4, <2>5 DEF EnforcementInv
<1>2. CASE Stores(a)
  <2>1. /\ actor[a].pc = "answered" /\ snapshot' = Received(a)
        /\ UNCHANGED <<suspended, ago, observing, settings, live, started, faults, crashes>>
    BY <1>2 DEF Stores, billing, bounds
  <2>2. actor[a].blocks \in SUBSET Sites /\ actor[a].age \in 0 .. Stale
    BY <2>1 DEF EnforcementInv, EnforcementTypeOK, Tasks
  <2>3. snapshot' \in [blocks : SUBSET Sites, age : 0 .. Stale]
    BY <2>1, <2>2 DEF Received
  <2>4. /\ file' \subseteq Sites /\ actor' \in [Actors -> Tasks] /\ disabled' \in BOOLEAN
        /\ actor'[a].pc # "answered" /\ \A b \in Actors \ {a} : actor'[b] = actor[b]
    <3>1. CASE a \in Requests /\ settings.enabled
      <4>1. Applies(a, Plan(snapshot', settings), FALSE)
        BY <1>2, <3>1 DEF Stores
      <4>2. Plan(snapshot', settings) \in SUBSET Sites
        BY <2>3, PlanTyped
      <4> QED BY <4>1, <4>2, AppliesKeeps DEF EnforcementInv
    <3>2. CASE ~(a \in Requests /\ settings.enabled)
      <4>1. actor' = [actor EXCEPT ![a] = Idle] /\ file' = file /\ disabled' = disabled
        BY <1>2, <3>2 DEF Stores
      <4>2. Idle \in Tasks /\ Idle.pc # "answered"
        BY DEF Idle, Tasks
      <4> QED BY <4>1, <4>2 DEF EnforcementInv, EnforcementTypeOK
    <3> QED BY <3>1, <3>2
  <2>5. EnforcementTypeOK'
    BY <2>1, <2>3, <2>4 DEF EnforcementInv, EnforcementTypeOK
  <2>6. NotOlder(snapshot.blocks, snapshot.age)'
    BY <2>1 DEF EnforcementInv, NotOlder, Received
  <2>7. ASSUME NEW b \in Actors, actor'[b].pc = "answered"
        PROVE  NotOlder(actor[b].blocks, actor[b].age)'
    BY <2>1, <2>4, <2>7 DEF EnforcementInv, NotOlder
  <2> QED BY <2>5, <2>6, <2>7 DEF EnforcementInv
<1> QED BY <1>1, <1>2

(* Switches, restarts and other reloads of nginx.                          *)
LEMMA SwitchKeeps ==
    ASSUME EnforcementInv,
           Enables \/ ObserverSwitched \/ Crashes \/ OtherReload \/ \E a \in Actors : Disables(a)
    PROVE  EnforcementInv'
<1>1. CASE Enables
  <2>1. EnforcementTypeOK'
    <3>1. /\ settings' \in [enabled : BOOLEAN, pilots : SUBSET Sites]
          /\ disabled' \in BOOLEAN
      <4>1. PICK pilots \in SUBSET Sites : settings' = [enabled |-> TRUE, pilots |-> pilots]
        BY <1>1 DEF Enables
      <4>2. disabled' = FALSE
        BY <1>1 DEF Enables
      <4> QED BY <4>1, <4>2
    <3>2. observing /\ UNCHANGED observing
      BY <1>1 DEF Enables
    <3>3. UNCHANGED <<suspended, ago, snapshot, file, live, actor, started, faults, crashes>>
      BY <1>1 DEF Enables, billing, bounds
    <3>4. settings'.enabled => observing'
      BY <3>2
    <3> QED BY <3>1, <3>2, <3>3, <3>4 DEF EnforcementInv, EnforcementTypeOK
  <2> QED BY <1>1, <2>1 DEF Enables, EnforcementInv, NotOlder, billing
<1>2. CASE ObserverSwitched
  <2>1. EnforcementTypeOK'
    BY <1>2 DEF ObserverSwitched, EnforcementInv, EnforcementTypeOK, billing, bounds
  <2> QED BY <1>2, <2>1 DEF ObserverSwitched, EnforcementInv, NotOlder, billing
<1>3. CASE Crashes
  <2>1. crashes' \in 0 .. MaxCrashes
    BY <1>3, EnforcementAssumption DEF Crashes, EnforcementInv, EnforcementTypeOK
  <2>2. actor' \in [Actors -> Tasks] /\ \A b \in Actors : actor'[b].pc # "answered"
    BY <1>3 DEF Crashes, Idle, Tasks
  <2>3. EnforcementTypeOK'
    BY <1>3, <2>1, <2>2 DEF Crashes, EnforcementInv, EnforcementTypeOK, billing
  <2> QED BY <1>3, <2>2, <2>3 DEF Crashes, EnforcementInv, NotOlder, billing
<1>4. CASE OtherReload
  <2>1. EnforcementTypeOK'
    BY <1>4 DEF OtherReload, EnforcementInv, EnforcementTypeOK, billing, bounds
  <2> QED BY <1>4, <2>1 DEF OtherReload, EnforcementInv, NotOlder, billing
<1>5. ASSUME NEW a \in Actors, Disables(a)
      PROVE  EnforcementInv'
  <2>1. /\ UNCHANGED <<suspended, ago, snapshot, observing, live, started, faults, crashes>>
        /\ settings' \in [enabled : BOOLEAN, pilots : SUBSET Sites] /\ ~settings'.enabled
    BY <1>5 DEF Disables, billing, bounds
  <2>2. /\ file' \subseteq Sites /\ actor' \in [Actors -> Tasks] /\ disabled' \in BOOLEAN
        /\ actor'[a].pc # "answered" /\ \A b \in Actors \ {a} : actor'[b] = actor[b]
    <3>1. Applies(a, {}, TRUE)
      BY <1>5 DEF Disables
    <3>2. {} \in SUBSET Sites
      OBVIOUS
    <3> QED BY <3>1, <3>2, AppliesKeeps DEF EnforcementInv
  <2>3. EnforcementTypeOK'
    BY <2>1, <2>2 DEF EnforcementInv, EnforcementTypeOK
  <2> QED BY <2>1, <2>2, <2>3 DEF EnforcementInv, NotOlder
<1> QED BY <1>1, <1>2, <1>3, <1>4, <1>5

LEMMA EnforcementKeeps == EnforcementInv /\ [EnforcementNext]_enforcementVars => EnforcementInv'
<1> SUFFICES ASSUME EnforcementInv, [EnforcementNext]_enforcementVars PROVE EnforcementInv'
  OBVIOUS
<1>1. CASE Changes \/ FeedAges
  BY <1>1, WorldKeeps
<1>2. CASE Watches
  <2>1. Watchdog \in Actors /\ Reconciles(Watchdog) /\ started' \in BOOLEAN
    BY <1>2 DEF Watches, Actors
  <2> QED BY <2>1, CallKeeps
<1>3. CASE Enables \/ ObserverSwitched \/ Crashes \/ OtherReload
  BY <1>3, SwitchKeeps
<1>4. ASSUME NEW a \in Actors, Asked(a) \/ Disables(a) \/ Refreshes(a) \/ Continues(a)
      PROVE  EnforcementInv'
  <2>1. CASE Asked(a)
    BY <2>1, CallKeeps DEF Asked, EnforcementInv, EnforcementTypeOK
  <2>2. CASE Disables(a)
    BY <2>2, SwitchKeeps
  <2>3. CASE Refreshes(a) \/ FeedAnswers(a) \/ Stores(a)
    BY <2>3, RefreshKeeps
  <2>4. CASE Reloaded(a) \/ ReloadFails(a) \/ Undone(a) \/ RefreshFails(a)
    <3>1. started' = started
      BY <2>4 DEF Reloaded, ReloadFails, Undone, RefreshFails
    <3> QED BY <2>4, <3>1, CallKeeps DEF EnforcementInv, EnforcementTypeOK
  <2> QED BY <1>4, <2>1, <2>2, <2>3, <2>4 DEF Continues
<1>5. CASE UNCHANGED enforcementVars
  <2>1. EnforcementTypeOK'
    BY <1>5 DEF EnforcementInv, EnforcementTypeOK, enforcementVars
  <2> QED BY <1>5, <2>1 DEF EnforcementInv, NotOlder, enforcementVars
<1> QED BY <1>1, <1>2, <1>3, <1>4, <1>5 DEF EnforcementNext

(* The types of Enforcement, and: enforcement is never enabled without     *)
(* scheduled observation.                                                  *)
THEOREM EnforcementTyped == EnforcementSpec => []EnforcementTypeOK
<1>1. EnforcementInv => EnforcementTypeOK
  BY DEF EnforcementInv
<1> QED BY EnforcementStarts, EnforcementKeeps, <1>1, PTL DEF EnforcementSpec

(* A site comes into the map only through a plan of a fresh snapshot.      *)
LEMMA PlansAreFresh ==
    ASSUME EnforcementInv, NEW s \in Sites, s \in Plan(snapshot, settings)
    PROVE  s \in suspended \/ ago[s] <= MaxAge
<1>1. s \in snapshot.blocks /\ snapshot.age <= MaxAge
  BY PlanIsFresh
<1>2. s \in suspended \/ ago[s] <= snapshot.age
  BY <1>1 DEF EnforcementInv, NotOlder
<1>3. ago[s] \in Nat /\ snapshot.age \in Nat /\ MaxAge \in Nat
  BY EnforcementAssumption DEF EnforcementInv, EnforcementTypeOK, Stale
<1> QED BY <1>1, <1>2, <1>3

(* billing-enforcement.js redirects a site anew only when the billing      *)
(* service counted it as suspended no longer than the allowed age ago.     *)
THEOREM FreshlyBlocked == EnforcementSpec => BlocksFresh
<1> DEFINE Fresh(s) ==
      \/ s \in suspended \/ ago[s] <= MaxAge
      \/ \E a \in Actors : ReloadFails(a) /\ s \in actor[a].previous
<1>1. ASSUME EnforcementInv, [EnforcementNext]_enforcementVars, NEW s \in file' \ file
      PROVE  Fresh(s)
  <2>1. ASSUME NEW a \in Actors, Reconciles(a)
        PROVE  Fresh(s)
    <3>1. s \in Plan(snapshot, settings)
      BY <1>1, <2>1 DEF Reconciles, Applies
    <3>2. s \in Sites
      BY <3>1, PlanTyped, <1>1 DEF EnforcementInv, EnforcementTypeOK
    <3> QED BY <1>1, <3>1, <3>2, PlansAreFresh
  <2>2. ASSUME NEW a \in Actors, Stores(a)
        PROVE  Fresh(s)
    <3>1. s \in Plan(snapshot', settings) /\ snapshot' = Received(a)
      BY <1>1, <2>2 DEF Stores, Applies
    <3>2. s \in actor[a].blocks /\ actor[a].pc = "answered" /\ actor[a].age <= MaxAge
      BY <2>2, <3>1, PlanIsFresh DEF Stores, Received
    <3>3. actor[a].blocks \subseteq Sites /\ actor[a].age \in Nat
      BY <1>1, <3>2 DEF EnforcementInv, EnforcementTypeOK, Tasks
    <3>4. s \in suspended \/ ago[s] <= actor[a].age
      BY <1>1, <3>2 DEF EnforcementInv, NotOlder
    <3>5. ago[s] \in Nat /\ MaxAge \in Nat
      BY <1>1, <3>2, <3>3, EnforcementAssumption DEF EnforcementInv, EnforcementTypeOK, Stale
    <3> QED BY <3>2, <3>3, <3>4, <3>5
  <2>3. ASSUME NEW a \in Actors, ReloadFails(a)
        PROVE  Fresh(s)
    BY <1>1, <2>3 DEF ReloadFails
  <2>4. ASSUME NEW a \in Actors, Disables(a)
        PROVE  FALSE
    BY <1>1, <2>4 DEF Disables, Applies
  <2>5. CASE Watches
    <3>1. Watchdog \in Actors /\ Reconciles(Watchdog)
      BY <2>5 DEF Watches, Actors
    <3> QED BY <2>1, <3>1
  <2>6. CASE file' = file
    BY <1>1, <2>6
  <2>7. ASSUME NEW a \in Actors, Asked(a) \/ Disables(a) \/ Refreshes(a) \/ Continues(a)
        PROVE  Fresh(s) \/ file' = file
    <3>1. CASE Asked(a)
      BY <2>1, <3>1 DEF Asked
    <3>2. CASE Refreshes(a) \/ FeedAnswers(a) \/ RefreshFails(a) \/ Reloaded(a) \/ Undone(a)
      BY <3>2 DEF Refreshes, FeedAnswers, RefreshFails, Reloaded, Undone
    <3> QED BY <2>2, <2>3, <2>4, <2>7, <3>1, <3>2 DEF Continues
  <2>8. CASE Changes \/ FeedAges \/ Enables \/ ObserverSwitched \/ Crashes \/ OtherReload \/ UNCHANGED enforcementVars
    <3>1. file' = file
      BY <2>8 DEF Changes, FeedAges, Enables, ObserverSwitched, Crashes, OtherReload, enforcementVars
    <3> QED BY <2>6, <3>1
  <2> HIDE DEF Fresh
  <2> QED BY <1>1, <2>5, <2>6, <2>7, <2>8 DEF EnforcementNext
<1>2. EnforcementInv /\ [EnforcementNext]_enforcementVars =>
        [\A s \in file' \ file :
          \/ s \in suspended \/ ago[s] <= MaxAge
          \/ \E a \in Actors : ReloadFails(a) /\ s \in actor[a].previous]_enforcementVars
  BY <1>1
<1> QED BY EnforcementStarts, EnforcementKeeps, <1>2, PTL DEF EnforcementSpec, BlocksFresh
=============================================================================
