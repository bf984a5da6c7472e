------------------------------- MODULE Enrollment -------------------------------
(***************************************************************************)
(* How a remotely hosted WordPress site follows its billing service: the   *)
(* one-time codes, installations and signing keys of                       *)
(* billing-service/app/lib/database.js and the plugin                      *)
(* wordpress-plugin/hostpilot-remote that enrolls and polls.               *)
(*                                                                         *)
(* One service and one site.  Every request of the service is one          *)
(* transaction; the plugin makes its requests one after the other, and     *)
(* anything can happen between them.  Secrets and signatures are taken as  *)
(* unforgeable: a credential is its installation, a code its number, and a *)
(* payload names the key that signed it.                                   *)
(***************************************************************************)
EXTENDS Naturals, Sequences, FiniteSets

CONSTANTS
    Domains,      \* names the service may have
    CodeLife,     \* how long a code is valid
    Ttl,          \* ENTITLEMENT_TTL_MS
    KeyLife,      \* how long a signing key is valid
    Overlap,      \* how long a replaced signing key is served
    MaxTime, MaxCodes, MaxKeys, MaxChanges   \* bounds

ASSUME EnrollmentAssumption ==
    /\ CodeLife \in Nat \ {0} /\ Ttl \in Nat \ {0} /\ KeyLife \in Nat \ {0}
    /\ Overlap \in Nat \ {0} /\ Ttl <= Overlap
    /\ MaxTime \in Nat /\ MaxCodes \in Nat /\ MaxKeys \in Nat /\ MaxChanges \in Nat

VARIABLES
    now,       \* the clock of both sides
    row,       \* the service: [domain, shared, archived]
    codes,     \* [domain, expires, used, revoked], used the installation or 0
    installs,  \* wp_installations: [domain, revoked, code]
    keys,      \* signing_keys: [active, expires, rotated, retired, emergency]
    site,      \* the plugin: [config, stored, poll, keys, answer, enrolling]
    changes    \* bound

vars == <<now, row, codes, installs, keys, site, changes>>
server == <<row, codes, installs, keys, changes>>

NoPayload == [installation |-> 0, key |-> 0, expires |-> 0]
IdlePoll == [pc |-> "idle", config |-> 0, keys |-> {}, answer |-> NoPayload]

-----------------------------------------------------------------------------
(* Codes and installations                                                 *)

EnrollmentActive == ~row.archived /\ row.shared

Unrevoked(domain) == {n \in DOMAIN installs : installs[n].domain = domain /\ ~installs[n].revoked}

Pending(domain) ==
    {k \in DOMAIN codes : /\ codes[k].domain = domain /\ codes[k].expires > now
                          /\ codes[k].used = 0 /\ ~codes[k].revoked}

CreatesCode ==
    /\ Len(codes) < MaxCodes
    /\ EnrollmentActive
    /\ Unrevoked(row.domain) = {} /\ Pending(row.domain) = {}
    /\ codes' = Append(codes, [domain |-> row.domain, expires |-> now + CodeLife,
                               used |-> 0, revoked |-> FALSE])
    /\ UNCHANGED <<now, row, installs, keys, site, changes>>

RevokesCode(k) ==
    /\ ~codes[k].revoked
    /\ codes' = [codes EXCEPT ![k].revoked = TRUE]
    /\ UNCHANGED <<now, row, installs, keys, site, changes>>

(* Mutant: a code is not marked as used.                                   *)
ExchangesAgain(k) ==
    /\ site.config = 0 /\ site.enrolling = 0
    /\ ~codes[k].revoked /\ codes[k].expires > now
    /\ EnrollmentActive /\ row.domain = codes[k].domain /\ Unrevoked(row.domain) = {}
    /\ installs' = Append(installs, [domain |-> row.domain, revoked |-> FALSE, code |-> k])
    /\ \E lost \in BOOLEAN : site' = [site EXCEPT !.enrolling = IF lost THEN 0 ELSE Len(installs')]
    /\ UNCHANGED <<now, row, codes, keys, changes>>

(* exchangeEnrollmentCode, asked by the plugin, which shows its form only  *)
(* while it has no installation; the answer may be lost.                   *)
Exchanges(k) ==
    /\ site.config = 0 /\ site.enrolling = 0
    /\ codes[k].used = 0 /\ ~codes[k].revoked /\ codes[k].expires > now
    /\ EnrollmentActive /\ row.domain = codes[k].domain /\ Unrevoked(row.domain) = {}
    /\ installs' = Append(installs, [domain |-> row.domain, revoked |-> FALSE, code |-> k])
    /\ codes' = [codes EXCEPT ![k].used = Len(installs')]
    /\ \E lost \in BOOLEAN : site' = [site EXCEPT !.enrolling = IF lost THEN 0 ELSE Len(installs')]
    /\ UNCHANGED <<now, row, keys, changes>>

RevokesInstallation(n) ==
    /\ ~installs[n].revoked
    /\ installs' = [installs EXCEPT ![n].revoked = TRUE]
    /\ UNCHANGED <<now, row, codes, keys, site, changes>>

(* Mutant: the domain of an installation is not compared.                  *)
AuthenticatesAnywhere(n) == n \in DOMAIN installs /\ ~installs[n].revoked /\ EnrollmentActive

Authenticates(n) ==
    /\ n \in DOMAIN installs /\ ~installs[n].revoked
    /\ EnrollmentActive /\ row.domain = installs[n].domain

(* updateService and archiveService.                                       *)
ChangesRow ==
    /\ changes < MaxChanges /\ changes' = changes + 1
    /\ \/ row' = [row EXCEPT !.shared = ~@]
       \/ row' = [row EXCEPT !.archived = ~@]
       \/ \E d \in Domains \ {row.domain} : row' = [row EXCEPT !.domain = d]
    /\ UNCHANGED <<now, codes, installs, keys, site>>

-----------------------------------------------------------------------------
(* Signing keys                                                            *)

ActiveKeys == {k \in DOMAIN keys : keys[k].active}

(* activeSigningKeyRaw.                                                    *)
Signing == {k \in ActiveKeys : keys[k].expires > now}

(* Mutant: a replaced key is not served any more.                          *)
EligibleActive == Signing

(* eligiblePublicKeys.                                                     *)
Eligible ==
    Signing \cup {k \in DOMAIN keys :
        /\ ~keys[k].active /\ ~keys[k].retired
        /\ keys[k].expires > now /\ keys[k].rotated + Overlap > now}

NewKey == [active |-> TRUE, expires |-> now + KeyLife, rotated |-> 0,
           retired |-> FALSE, emergency |-> FALSE]

(* initSigningKey; a rotation also erases the private key it replaces.     *)
InitializesKey ==
    /\ Len(keys) < MaxKeys /\ ActiveKeys = {}
    /\ keys' = Append(keys, NewKey)
    /\ UNCHANGED <<now, row, codes, installs, site, changes>>

(* Mutant: the active key is not deactivated.                              *)
RotatesKeyTwice ==
    /\ Len(keys) < MaxKeys /\ ActiveKeys # {}
    /\ keys' = Append(keys, NewKey)
    /\ UNCHANGED <<now, row, codes, installs, site, changes>>

RotatesKey ==
    /\ Len(keys) < MaxKeys
    /\ \E k \in ActiveKeys :
          keys' = Append([keys EXCEPT ![k].active = FALSE, ![k].rotated = now], NewKey)
    /\ UNCHANGED <<now, row, codes, installs, site, changes>>

Over(k) == keys[k].expires <= now \/ keys[k].rotated + Overlap <= now

RetiresKey(k, emergency) ==
    /\ ~keys[k].active /\ ~keys[k].retired
    /\ emergency \/ Over(k)
    /\ keys' = [keys EXCEPT ![k].retired = TRUE, ![k].emergency = emergency]
    /\ UNCHANGED <<now, row, codes, installs, site, changes>>

-----------------------------------------------------------------------------
(* The plugin                                                              *)

(* The answer of an exchange: the configuration is stored, the last        *)
(* entitlement deleted and a poll made.                                    *)
Enrolls ==
    /\ site.enrolling # 0
    /\ site' = [site EXCEPT !.config = site.enrolling, !.enrolling = 0, !.stored = NoPayload]
    /\ UNCHANGED <<now, server>>

(* One poll at a time; it works with the configuration of its beginning.   *)
PollFetchesKeys ==
    /\ site.poll.pc = "idle" /\ site.config # 0
    /\ site' = [site EXCEPT !.poll = [IdlePoll EXCEPT !.pc = "keyed", !.config = site.config,
                                                      !.keys = Eligible]]
    /\ UNCHANGED <<now, server>>

(* POST /remote/v1/entitlement, authenticated, signed and answered.        *)
PollAsks ==
    /\ site.poll.pc = "keyed" /\ Authenticates(site.poll.config)
    /\ \E k \in Signing :
          site' = [site EXCEPT !.poll.pc = "answered",
                               !.poll.answer = [installation |-> site.poll.config, key |-> k,
                                                expires |-> now + Ttl]]
    /\ UNCHANGED <<now, server>>

(* validate and verify; what fails leaves what is stored.                  *)
PollStores ==
    /\ site.poll.pc = "answered"
    /\ site' = [site EXCEPT !.poll = IdlePoll,
                            !.stored = IF /\ site.poll.answer.expires > now
                                          /\ site.poll.answer.key \in site.poll.keys
                                       THEN site.poll.answer ELSE @]
    /\ UNCHANGED <<now, server>>

PollFails ==
    /\ site.poll.pc # "idle"
    /\ site' = [site EXCEPT !.poll = IdlePoll]
    /\ UNCHANGED <<now, server>>

Disconnects ==
    /\ site.config # 0
    /\ site' = [site EXCEPT !.config = 0, !.stored = NoPayload]
    /\ UNCHANGED <<now, server>>

Tick == now < MaxTime /\ now' = now + 1 /\ UNCHANGED <<server, site>>

-----------------------------------------------------------------------------
Init ==
    /\ now = 0 /\ changes = 0
    /\ row \in [domain : Domains, shared : {TRUE}, archived : {FALSE}]
    /\ codes = <<>> /\ installs = <<>> /\ keys = <<>>
    /\ site = [config |-> 0, enrolling |-> 0, stored |-> NoPayload, poll |-> IdlePoll]

Service ==
    \/ CreatesCode \/ ChangesRow \/ InitializesKey \/ RotatesKey
    \/ \E k \in DOMAIN codes : RevokesCode(k) \/ Exchanges(k)
    \/ \E n \in DOMAIN installs : RevokesInstallation(n)
    \/ \E k \in DOMAIN keys, emergency \in BOOLEAN : RetiresKey(k, emergency)

Plugin == Enrolls \/ PollFetchesKeys \/ PollAsks \/ PollStores \/ PollFails \/ Disconnects

Next == Service \/ Plugin \/ Tick

Spec == Init /\ [][Next]_vars

-----------------------------------------------------------------------------
(* Properties                                                              *)

(* The variables have their types and point at rows that exist.            *)
EnrollmentTypeOK ==
    /\ now \in 0 .. MaxTime /\ changes \in 0 .. MaxChanges
    /\ row \in [domain : Domains, shared : BOOLEAN, archived : BOOLEAN]
    /\ codes \in Seq([domain : Domains, expires : Nat, used : 0 .. Len(installs), revoked : BOOLEAN])
    /\ installs \in Seq([domain : Domains, revoked : BOOLEAN, code : DOMAIN codes])
    /\ keys \in Seq([active : BOOLEAN, expires : Nat, rotated : Nat, retired : BOOLEAN,
                     emergency : BOOLEAN])
    /\ Cardinality(ActiveKeys) <= 1
    /\ site.config \in 0 .. Len(installs) /\ site.enrolling \in 0 .. Len(installs)
    /\ site.stored.key \in 0 .. Len(keys) /\ site.poll.pc \in {"idle", "keyed", "answered"}

(* authenticateInstallation: never two credentials at once get an          *)
(* entitlement of the service, though it may change its domain, its place  *)
(* and back again, with an installation left unrevoked each time.          *)
OneAuthenticates ==
    \A m, n \in DOMAIN installs : Authenticates(m) /\ Authenticates(n) => m = n

(* exchangeEnrollmentCode: a code makes one installation at most, though   *)
(* its answer is lost or the installation is revoked at once.              *)
CodeOnce ==
    \A m, n \in DOMAIN installs : installs[m].code = installs[n].code => m = n

(* An entitlement that is still valid can be verified with the keys served *)
(* now, whatever rotations came since, unless its key expired or was       *)
(* retired in an emergency.                                                *)
FreshVerifiable ==
    \A payload \in {site.stored, site.poll.answer} :
        payload.key # 0 /\ payload.expires > now =>
            \/ payload.key \in Eligible
            \/ keys[payload.key].expires <= now \/ keys[payload.key].emergency
================================================================================
