------------------------- MODULE SidecarDriverProofs -------------------------
(***************************************************************************)
(* What SidecarDriver promises of Secrets, grants and Bucket statuses, for *)
(* every set of accesses, Buckets and driver answers, every number of      *)
(* faults, restarts and stops of the driver.                               *)
(*                                                                         *)
(* First the translators: an accepted answer has one protocol, so that its *)
(* variables are those of that protocol and no other, and what was encoded *)
(* is decoded again.  A Secret is therefore replaced as a whole whenever   *)
(* it is merged with new data.  The rest is an inductive invariant.        *)
(***************************************************************************)
EXTENDS SidecarDriver, WellFoundedInduction, TLAPS

(***************************************************************************)
(* Maps and lists.                                                         *)
(***************************************************************************)
\* The last of some positions of a list is one of them.
LEMMA LastIsOne ==
    ASSUME NEW n \in Nat, NEW S, S \subseteq 1 .. n, S # {}
    PROVE  Last(S) \in S
<1> DEFINE T == {n - i : i \in S}
<1>1. T \subseteq Nat
  <2> SUFFICES ASSUME NEW i \in S PROVE n - i \in Nat
    BY Zenon
  <2>1. i \in 1 .. n
    BY Zenon
  <2> QED BY SMTT(60), <2>1
<1>2. T # {}
  BY Zenon
<1>3. PICK x \in T : \A y \in T : ~(<<y, x>> \in OpToRel(<, Nat))
  BY Zenon, <1>1, <1>2, WFMin, NatLessThanWellFounded
<1>4. \A y \in T : ~(y < x)
  BY ZenonT(30), <1>1, <1>3 DEF OpToRel
<1>5. PICK i \in S : x = n - i
  BY Zenon
<1>6. \A j \in S : j <= i
  BY SMTT(60), <1>4, <1>5
<1> QED BY Zenon, <1>6 DEF Last

IsMap(m) == m = [k \in DOMAIN m |-> m[k]]

\* Two maps with the same entries are the same.
LEMMA SameMap ==
    ASSUME NEW m, NEW n, IsMap(m), IsMap(n), DOMAIN m = DOMAIN n,
           \A k \in DOMAIN m : m[k] = n[k]
    PROVE  m = n
BY Zenon DEF IsMap

\* r has the entries of m and, where m has none, those of target.
IsMerge(r, m, target) ==
    /\ IsMap(r)
    /\ DOMAIN r = DOMAIN m \cup DOMAIN target
    /\ \A k \in DOMAIN m : r[k] = m[k]
    /\ \A k \in DOMAIN target \ DOMAIN m : r[k] = target[k]

\* MergeApiInfoIntoStringMap: the entries of m win.
LEMMA MergeOK ==
    ASSUME NEW m, NEW target PROVE IsMerge(MergeApiInfo(m, target), m, target)
BY Zenon DEF MergeApiInfo, IsMap, IsMerge

\* r has the entries of m for the given keys.
IsPart(r, m, keys) ==
    /\ IsMap(r)
    /\ DOMAIN r = DOMAIN m \cap keys
    /\ \A k \in DOMAIN m \cap keys : r[k] = m[k]

\* Pick restricts a map to the given keys.
LEMMA PickOK ==
    ASSUME NEW m, NEW keys PROVE IsPart(Pick(m, keys), m, keys)
BY Zenon DEF Pick, IsMap, IsPart

\* The empty map.
LEMMA NoVarsOK == IsMap(NoVars) /\ DOMAIN NoVars = {}
BY Zenon DEF NoVars, IsMap

\* Merging replaces a map whose variables are all given anew.
LEMMA MergeReplaces ==
    ASSUME NEW m, NEW target, IsMap(m), DOMAIN target \subseteq DOMAIN m
    PROVE  MergeApiInfo(m, target) = m
<1>1. PICK r : r = MergeApiInfo(m, target)
  BY Zenon
<1>2. IsMerge(r, m, target)
  BY Zenon, <1>1, MergeOK
<1>3. IsMap(r) /\ DOMAIN r = DOMAIN m /\ \A k \in DOMAIN m : r[k] = m[k]
  BY Zenon, <1>2 DEF IsMerge
<1> QED BY Zenon, <1>1, <1>3, SameMap
-----------------------------------------------------------------------------
(***************************************************************************)
(* The translators, protocol by protocol.                                  *)
(***************************************************************************)
\* RpcToApi sets every variable of its protocol, also those without a value.
LEMMA InfoIsMap ==
    ASSUME NEW p \in ApiProtocols, NEW m
    PROVE  /\ IsMap(InfoRpcToApi(p, m))
           /\ DOMAIN InfoRpcToApi(p, m) = IF m = None THEN {} ELSE InfoVars(p)
<1>1. CASE p = "S3"
  BY Zenon, <1>1, NoVarsOK DEF InfoRpcToApi, S3InfoRpcToApi, InfoVars, IsMap
<1>2. CASE p = "Azure"
  BY Zenon, <1>2, NoVarsOK DEF InfoRpcToApi, AzureInfoRpcToApi, InfoVars, IsMap
<1>3. CASE p = "GCS"
  BY Zenon, <1>3, NoVarsOK DEF InfoRpcToApi, GcsInfoRpcToApi, InfoVars, IsMap
<1> QED BY Zenon, <1>1, <1>2, <1>3 DEF ApiProtocols

\* So does RpcToApi for credentials.
LEMMA CredentialIsMap ==
    ASSUME NEW p \in ApiProtocols, NEW m
    PROVE  /\ IsMap(CredentialRpcToApi(p, m))
           /\ DOMAIN CredentialRpcToApi(p, m) = IF m = None THEN {} ELSE CredentialVars(p)
<1>1. CASE p = "S3"
  BY Zenon, <1>1, NoVarsOK DEF CredentialRpcToApi, S3CredentialRpcToApi, CredentialVars, IsMap
<1>2. CASE p = "Azure"
  BY Zenon, <1>2, NoVarsOK DEF CredentialRpcToApi, AzureCredentialRpcToApi, CredentialVars, IsMap
<1>3. CASE p = "GCS"
  BY Zenon, <1>3, NoVarsOK DEF CredentialRpcToApi, GcsCredentialRpcToApi, CredentialVars, IsMap
<1> QED BY Zenon, <1>1, <1>2, <1>3 DEF ApiProtocols

\* No variable belongs to two protocols, or to an info and to a credential.
LEMMA VarsAreDisjoint ==
    ASSUME NEW p \in ApiProtocols, NEW q \in ApiProtocols
    PROVE  /\ InfoVars(p) # {}
           /\ InfoVars(p) \cap CredentialVars(q) = {}
           /\ p # q => InfoVars(p) \cap InfoVars(q) = {}
                       /\ CredentialVars(p) \cap CredentialVars(q) = {}
BY Zenon DEF ApiProtocols, InfoVars, CredentialVars

Message(p) == CASE p = "S3" -> S3BucketInfo [] p = "Azure" -> AzureBucketInfo
                [] p = "GCS" -> GcsBucketInfo
Credential(p) == CASE p = "S3" -> S3CredentialInfo [] p = "Azure" -> AzureCredentialInfo
                   [] p = "GCS" -> GcsCredentialInfo

\* A bucket info that passed Validate is decoded to what it was.
LEMMA InfoRoundTrip ==
    ASSUME NEW p \in ApiProtocols, NEW m \in Message(p),
           InfoValidate(p, InfoRpcToApi(p, m))
    PROVE  /\ InfoApiToRpc(p, InfoRpcToApi(p, m)) = m
           /\ \A v \in InfoVars(p) : InfoRpcToApi(p, m)[v] # None
<1>1. CASE p = "S3"
  <2>1. m \in S3BucketInfo /\ m # None
    BY Zenon, <1>1, MessageAssumption DEF Message
  <2>2. m.addressingStyle \in {"PATH", "VIRTUAL"}
    BY Zenon, <1>1, <2>1, TextAssumption DEF InfoRpcToApi, S3InfoRpcToApi, InfoValidate,
       S3InfoValidate, Get, validS3AddressingStyles, S3BucketInfo, S3AddressingStyle
  <2> QED BY Zenon, <1>1, <2>1, <2>2, TextAssumption DEF InfoRpcToApi, S3InfoRpcToApi, InfoApiToRpc,
             S3InfoApiToRpc, InfoValidate, S3InfoValidate, Get, validS3AddressingStyles,
             S3BucketInfo, S3AddressingStyle, InfoVars
<1>2. CASE p = "Azure"
  <2>1. m \in AzureBucketInfo /\ m # None
    BY Zenon, <1>2, MessageAssumption DEF Message
  <2> QED BY Zenon, <1>2, <2>1 DEF InfoRpcToApi, AzureInfoRpcToApi, InfoApiToRpc,
             AzureInfoApiToRpc, InfoValidate, AzureInfoValidate, Get, AzureBucketInfo, InfoVars
<1>3. CASE p = "GCS"
  <2>1. m \in GcsBucketInfo /\ m # None
    BY Zenon, <1>3, MessageAssumption DEF Message
  <2> QED BY Zenon, <1>3, <2>1 DEF InfoRpcToApi, GcsInfoRpcToApi, InfoApiToRpc,
             GcsInfoApiToRpc, InfoValidate, GcsInfoValidate, Get, GcsBucketInfo, InfoVars
<1> QED BY Zenon, <1>1, <1>2, <1>3 DEF ApiProtocols

\* So is a credential, valid or not.
LEMMA CredentialRoundTrip ==
    ASSUME NEW p \in ApiProtocols, NEW m \in Credential(p)
    PROVE  m # None /\ CredentialApiToRpc(p, CredentialRpcToApi(p, m)) = m
<1>1. CASE p = "S3"
  BY Zenon, <1>1, MessageAssumption DEF Credential, CredentialRpcToApi, S3CredentialRpcToApi,
     CredentialApiToRpc, S3CredentialApiToRpc, Get, S3CredentialInfo
<1>2. CASE p = "Azure"
  BY Zenon, <1>2, MessageAssumption DEF Credential, CredentialRpcToApi, AzureCredentialRpcToApi,
     CredentialApiToRpc, AzureCredentialApiToRpc, Get, AzureCredentialInfo
<1>3. CASE p = "GCS"
  BY Zenon, <1>3, MessageAssumption DEF Credential, CredentialRpcToApi, GcsCredentialRpcToApi,
     CredentialApiToRpc, GcsCredentialApiToRpc, Get, GcsCredentialInfo
<1> QED BY Zenon, <1>1, <1>2, <1>3 DEF ApiProtocols

\* A credential that passed Validate has every variable that the API requires.
LEMMA CredentialHasRequired ==
    ASSUME NEW p \in ApiProtocols, NEW m \in Credential(p), NEW auth,
           CredentialValidate(p, CredentialRpcToApi(p, m), auth),
           NEW v \in RequiredOfProtocol(p, auth), v \notin InfoVars(p)
    PROVE  v \in CredentialVars(p) /\ CredentialRpcToApi(p, m)[v] # None
<1>0. auth = "Key" /\ m # None
  BY Zenon, CredentialRoundTrip DEF RequiredOfProtocol
<1>1. CASE p = "S3"
  BY Zenon, <1>0, <1>1 DEF RequiredOfProtocol, CredentialVars, CredentialValidate, S3CredentialValidate,
     CredentialRpcToApi, S3CredentialRpcToApi, Get
<1>2. CASE p = "Azure"
  BY Zenon, <1>0, <1>2 DEF RequiredOfProtocol, CredentialVars, CredentialValidate, AzureCredentialValidate,
     CredentialRpcToApi, AzureCredentialRpcToApi, Get
<1>3. CASE p = "GCS"
  BY Zenon, <1>0, <1>3 DEF RequiredOfProtocol, CredentialVars, CredentialValidate, GcsCredentialValidate,
     CredentialRpcToApi, GcsCredentialRpcToApi, Get
<1> QED BY Zenon, <1>1, <1>2, <1>3 DEF ApiProtocols
-----------------------------------------------------------------------------
(***************************************************************************)
(* Answers.                                                                *)
(***************************************************************************)
\* BucketInfoToApi: every protocol finds its own variables in the merged map.
LEMMA InfoOfProtocol ==
    ASSUME NEW p \in ApiProtocols, NEW bi
    PROVE  /\ IsMap(BucketInfoToApi(bi))
           /\ Pick(BucketInfoToApi(bi), InfoVars(p)) = InfoRpcToApi(p, bi[p])
           /\ (\A q \in ApiProtocols \ {p} : bi[q] = None) =>
                BucketInfoToApi(bi) = InfoRpcToApi(p, bi[p])
<1>1. PICK s, a, g : /\ s = InfoRpcToApi("S3", bi.S3) /\ a = InfoRpcToApi("Azure", bi.Azure)
                     /\ g = InfoRpcToApi("GCS", bi.GCS)
  BY Zenon
<1>2. PICK sa, all : sa = MergeApiInfo(a, s) /\ all = MergeApiInfo(g, sa)
  BY Zenon
<1>3. BucketInfoToApi(bi) = all
  BY Zenon, <1>1, <1>2 DEF BucketInfoToApi
<1>4. /\ IsMap(s) /\ DOMAIN s = IF bi.S3 = None THEN {} ELSE InfoVars("S3")
      /\ IsMap(a) /\ DOMAIN a = IF bi.Azure = None THEN {} ELSE InfoVars("Azure")
      /\ IsMap(g) /\ DOMAIN g = IF bi.GCS = None THEN {} ELSE InfoVars("GCS")
  BY Zenon, <1>1, InfoIsMap DEF ApiProtocols
<1>5. /\ IsMap(all) /\ DOMAIN all = DOMAIN g \cup DOMAIN a \cup DOMAIN s
      /\ \A k \in DOMAIN all : all[k] = IF k \in DOMAIN g THEN g[k]
                                        ELSE IF k \in DOMAIN a THEN a[k] ELSE s[k]
  <2>1. IsMerge(sa, a, s) /\ IsMerge(all, g, sa)
    BY Zenon, <1>2, MergeOK
  <2> QED BY Zenon, <2>1 DEF IsMerge
<1>6. PICK own : own = InfoRpcToApi(p, bi[p])
  BY Zenon
<1>7. IsMap(own) /\ DOMAIN own = IF bi[p] = None THEN {} ELSE InfoVars(p)
  BY Zenon, <1>6, InfoIsMap
<1>8. /\ DOMAIN all \cap InfoVars(p) = DOMAIN own
      /\ \A k \in DOMAIN own : all[k] = own[k]
      /\ (\A q \in ApiProtocols \ {p} : bi[q] = None) => DOMAIN all = DOMAIN own
  <2>1. CASE p = "S3"
    <3>1. own = s /\ DOMAIN s \cap (DOMAIN a \cup DOMAIN g) = {}
      BY Zenon, <1>1, <1>4, <1>6, <2>1, VarsAreDisjoint DEF ApiProtocols
    <3> QED BY Zenon, <1>4, <1>5, <1>7, <2>1, <3>1, VarsAreDisjoint DEF ApiProtocols
  <2>2. CASE p = "Azure"
    <3>1. own = a /\ DOMAIN a \cap (DOMAIN s \cup DOMAIN g) = {}
      BY Zenon, <1>1, <1>4, <1>6, <2>2, VarsAreDisjoint DEF ApiProtocols
    <3> QED BY Zenon, <1>4, <1>5, <1>7, <2>2, <3>1, VarsAreDisjoint DEF ApiProtocols
  <2>3. CASE p = "GCS"
    <3>1. own = g /\ DOMAIN g \cap (DOMAIN s \cup DOMAIN a) = {}
      BY Zenon, <1>1, <1>4, <1>6, <2>3, VarsAreDisjoint DEF ApiProtocols
    <3> QED BY Zenon, <1>4, <1>5, <1>7, <2>3, <3>1, VarsAreDisjoint DEF ApiProtocols
  <2> QED BY Zenon, <2>1, <2>2, <2>3 DEF ApiProtocols
<1>9. Pick(all, InfoVars(p)) = own
  <2>1. PICK picked : picked = Pick(all, InfoVars(p))
    BY Zenon
  <2>2. /\ IsMap(picked) /\ DOMAIN picked = DOMAIN own
        /\ \A k \in DOMAIN own : picked[k] = own[k]
    <3>1. IsPart(picked, all, InfoVars(p))
      BY Zenon, <2>1, PickOK
    <3> QED BY Zenon, <1>8, <3>1 DEF IsPart
  <2> QED BY Zenon, <1>7, <2>1, <2>2, SameMap
<1>10. (\A q \in ApiProtocols \ {p} : bi[q] = None) => all = own
  BY Zenon, <1>5, <1>7, <1>8, SameMap
<1> QED BY Zenon, <1>3, <1>5, <1>6, <1>9, <1>10

\* CredentialsToApi of credentials of a single protocol.
LEMMA CredentialsOfProtocol ==
    ASSUME NEW p \in ApiProtocols, NEW ci, \A q \in ApiProtocols \ {p} : ci[q] = None
    PROVE  CredentialsToApi(ci) = CredentialRpcToApi(p, ci[p])
<1>1. PICK s, a, g : /\ s = CredentialRpcToApi("S3", ci.S3)
                     /\ a = CredentialRpcToApi("Azure", ci.Azure)
                     /\ g = CredentialRpcToApi("GCS", ci.GCS)
  BY Zenon
<1>2. PICK sa, all : sa = MergeApiInfo(a, s) /\ all = MergeApiInfo(g, sa)
  BY Zenon
<1>3. CredentialsToApi(ci) = all
  BY Zenon, <1>1, <1>2 DEF CredentialsToApi
<1>4. /\ IsMap(s) /\ DOMAIN s = IF ci.S3 = None THEN {} ELSE CredentialVars("S3")
      /\ IsMap(a) /\ DOMAIN a = IF ci.Azure = None THEN {} ELSE CredentialVars("Azure")
      /\ IsMap(g) /\ DOMAIN g = IF ci.GCS = None THEN {} ELSE CredentialVars("GCS")
  BY Zenon, <1>1, CredentialIsMap DEF ApiProtocols
<1>5. /\ IsMap(all) /\ DOMAIN all = DOMAIN g \cup DOMAIN a \cup DOMAIN s
      /\ \A k \in DOMAIN all : all[k] = IF k \in DOMAIN g THEN g[k]
                                        ELSE IF k \in DOMAIN a THEN a[k] ELSE s[k]
  <2>1. IsMerge(sa, a, s) /\ IsMerge(all, g, sa)
    BY Zenon, <1>2, MergeOK
  <2> QED BY Zenon, <2>1 DEF IsMerge
<1>6. CASE p = "S3"
  <2>1. ci.Azure = None /\ ci.GCS = None
    BY Zenon, <1>6 DEF ApiProtocols
  <2> QED BY ZenonT(30), <1>1, <1>3, <1>4, <1>5, <1>6, <2>1, SameMap
<1>7. CASE p = "Azure"
  <2>1. ci.S3 = None /\ ci.GCS = None
    BY Zenon, <1>7 DEF ApiProtocols
  <2> QED BY ZenonT(60), <1>1, <1>3, <1>4, <1>5, <1>7, <2>1, SameMap
<1>8. CASE p = "GCS"
  <2>1. ci.S3 = None /\ ci.Azure = None
    BY Zenon, <1>8 DEF ApiProtocols
  <2> QED BY ZenonT(60), <1>1, <1>3, <1>4, <1>5, <1>8, <2>1, SameMap
<1> QED BY Zenon, <1>6, <1>7, <1>8 DEF ApiProtocols

\* An answer that translates has credentials of the protocol and of no other.
LEMMA AnswerCredentials ==
    ASSUME NEW resp \in GrantAnswers, NEW p \in ApiProtocols, NEW auth, NEW validation,
           validation = [expectedProtocol |-> p, authenticationType |-> auth],
           validation # None,
           GrantResponseTranslates(resp, validation)
    PROVE  LET ci == resp.credentials
           IN  /\ ci \in CredentialMessage /\ ci # None
               /\ \A q \in ApiProtocols \ {p} : ci[q] = None
               /\ ci[p] # None /\ CredentialValidate(p, CredentialRpcToApi(p, ci[p]), auth)
               /\ resp \in AnswersWith[p]
<1>0. validation.expectedProtocol = p /\ validation.authenticationType = auth
  BY Zenon
<1>1. PICK ci : ci = resp.credentials
  BY Zenon
<1>2. CredentialsTranslate(ci, validation)
  BY Zenon, <1>1 DEF GrantResponseTranslates
<1>3. ci \in CredentialMessage /\ ci # None
  BY Zenon, <1>1, <1>2, DriverAssumption DEF CredentialsTranslate
<1>4. \A q \in ApiProtocols :
        translates(q, ci[q], validation,
                   CredentialValidate(q, CredentialRpcToApi(q, ci[q]), auth))
  BY Zenon, <1>0, <1>2 DEF CredentialsTranslate
<1>5. \A q \in ApiProtocols \ {p} : ci[q] = None
  BY Zenon, <1>0, <1>4 DEF translates
<1>6. ci[p] # None /\ CredentialValidate(p, CredentialRpcToApi(p, ci[p]), auth)
  BY Zenon, <1>0, <1>4 DEF translates
<1>7. resp \in AnswersWith[p]
  BY Zenon, <1>1, <1>3, <1>6 DEF AnswersWith
<1> QED BY Zenon, <1>1, <1>3, <1>5, <1>6, <1>7

\* What the Secret of bucket id gets from an accepted answer: the variables of the
\* protocol, all of them, which decode to what the answer says.
LEMMA StringDataOK ==
    ASSUME NEW resp \in GrantAnswers, NEW p \in ApiProtocols, NEW auth, NEW validation,
           validation = [expectedProtocol |-> p, authenticationType |-> auth],
           validation # None,
           GrantResponseTranslates(resp, validation),
           NEW id \in DOMAIN BucketInfoByBucketId(resp)
    PROVE  /\ IsMap(StringData(resp, id))
           /\ DOMAIN StringData(resp, id) = InfoVars(p) \cup CredentialVars(p)
           /\ resp \in AnswersWith[p]
           /\ IsSaidBy(Decoded(StringData(resp, id), p), p, resp, id)
           /\ \A v \in RequiredOfProtocol(p, auth) : StringData(resp, id)[v] # None
<1>0. validation.expectedProtocol = p /\ validation.authenticationType = auth
  BY Zenon
<1>1. PICK ci : ci = resp.credentials
  BY Zenon
<1>2. /\ ci \in CredentialMessage /\ ci # None
      /\ \A q \in ApiProtocols \ {p} : ci[q] = None
      /\ ci[p] # None /\ CredentialValidate(p, CredentialRpcToApi(p, ci[p]), auth)
  BY Zenon, <1>1, AnswerCredentials
<1>3. ci[p] \in Credential(p)
  BY Zenon, <1>2 DEF CredentialMessage, Credential, ApiProtocols
<1>4. PICK i : i = Last(entriesFor(resp, id))
  BY Zenon
<1>5. i \in DOMAIN resp.buckets /\ i \in entriesFor(resp, id)
  <2>1. Len(resp.buckets) \in Nat /\ DOMAIN resp.buckets = 1 .. Len(resp.buckets)
    BY Zenon, DriverAssumption DEF IsList
  <2>2. entriesFor(resp, id) \subseteq DOMAIN resp.buckets
    BY Zenon DEF entriesFor
  <2>3. entriesFor(resp, id) # {}
    BY Zenon DEF entriesFor, BucketInfoByBucketId
  <2>4. i \in entriesFor(resp, id)
    BY Zenon, <1>4, <2>1, <2>2, <2>3, LastIsOne
  <2> QED BY Zenon, <2>2, <2>4
<1>6. PICK bi : bi = resp.buckets[i].bucketInfo
  BY Zenon
<1>7. /\ bi \in BucketInfoMessage /\ bi # None
      /\ \A q \in ApiProtocols \ {p} : bi[q] = None
      /\ bi[p] # None /\ InfoValidate(p, InfoRpcToApi(p, bi[p]))
  <2>1. BucketInfoTranslates(bi, validation)
    BY Zenon, <1>5, <1>6 DEF GrantResponseTranslates
  <2>2. bi \in BucketInfoMessage /\ bi # None
    BY Zenon, <1>5, <1>6, <2>1, DriverAssumption DEF BucketInfoTranslates
  <2>3. \A q \in ApiProtocols :
          translates(q, bi[q], validation, InfoValidate(q, InfoRpcToApi(q, bi[q])))
    BY Zenon, <2>1 DEF BucketInfoTranslates
  <2>4. \A q \in ApiProtocols \ {p} : bi[q] = None
    BY Zenon, <1>0, <2>3 DEF translates
  <2>5. bi[p] # None /\ InfoValidate(p, InfoRpcToApi(p, bi[p]))
    BY Zenon, <1>0, <2>3 DEF translates
  <2> QED BY Zenon, <2>2, <2>4, <2>5
<1>8. bi[p] \in Message(p)
  BY Zenon, <1>7 DEF BucketInfoMessage, Message, ApiProtocols
<1>9. PICK ivars, cvars, data :
        /\ ivars = InfoRpcToApi(p, bi[p]) /\ cvars = CredentialRpcToApi(p, ci[p])
        /\ data = MergeApiInfo(ivars, cvars)
  BY Zenon
<1>10. StringData(resp, id) = data
  <2>1. BucketInfoByBucketId(resp)[id] = BucketInfoToApi(bi)
    BY Zenon, <1>4, <1>6 DEF BucketInfoByBucketId
  <2>2. BucketInfoToApi(bi) = ivars /\ CredentialsToApi(ci) = cvars
    BY Zenon, <1>2, <1>7, <1>9, InfoOfProtocol, CredentialsOfProtocol
  <2> QED BY Zenon, <1>1, <1>9, <2>1, <2>2 DEF StringData
<1>11. /\ IsMap(ivars) /\ DOMAIN ivars = InfoVars(p)
       /\ IsMap(cvars) /\ DOMAIN cvars = CredentialVars(p)
  BY Zenon, <1>2, <1>7, <1>9, InfoIsMap, CredentialIsMap
<1>12. /\ IsMap(data) /\ DOMAIN data = InfoVars(p) \cup CredentialVars(p)
       /\ \A k \in InfoVars(p) : data[k] = ivars[k]
       /\ \A k \in CredentialVars(p) : data[k] = cvars[k]
  <2>1. IsMerge(data, ivars, cvars)
    BY Zenon, <1>9, MergeOK
  <2>2. InfoVars(p) \cap CredentialVars(p) = {}
    BY Zenon, VarsAreDisjoint
  <2> QED BY Zenon, <1>11, <2>1, <2>2 DEF IsMerge
<1>13. Pick(data, InfoVars(p)) = ivars /\ Pick(data, CredentialVars(p)) = cvars
  <2>1. PICK pi, pcr : pi = Pick(data, InfoVars(p)) /\ pcr = Pick(data, CredentialVars(p))
    BY Zenon
  <2>2. /\ IsMap(pi) /\ DOMAIN pi = DOMAIN ivars /\ \A k \in DOMAIN ivars : pi[k] = ivars[k]
        /\ IsMap(pcr) /\ DOMAIN pcr = DOMAIN cvars /\ \A k \in DOMAIN cvars : pcr[k] = cvars[k]
    <3>1. IsPart(pi, data, InfoVars(p)) /\ IsPart(pcr, data, CredentialVars(p))
      BY Zenon, <2>1, PickOK
    <3> QED BY Zenon, <1>11, <1>12, <3>1 DEF IsPart
  <2> QED BY Zenon, <1>11, <2>1, <2>2, SameMap
<1>14. InfoApiToRpc(p, ivars) = bi[p] /\ CredentialApiToRpc(p, cvars) = ci[p]
  BY Zenon, <1>3, <1>7, <1>8, <1>9, InfoRoundTrip, CredentialRoundTrip
<1>15. IsSaidBy(Decoded(data, p), p, resp, id)
  <2>1. PICK d : d = Decoded(data, p)
    BY Zenon
  <2>2. /\ d.vars = InfoVars(p) \cup CredentialVars(p) /\ d.credentials = ci[p]
        /\ d.info = bi[p]
    BY Zenon, <1>12, <1>13, <1>14, <2>1 DEF Decoded
  <2> QED BY Zenon, <1>1, <1>5, <1>6, <1>7, <2>1, <2>2 DEF IsSaidBy
<1>16. resp \in AnswersWith[p]
  BY Zenon, <1>1, <1>2 DEF AnswersWith
<1>17. ASSUME NEW v \in RequiredOfProtocol(p, auth) PROVE data[v] # None
  <2>1. CASE v \in InfoVars(p)
    BY ZenonT(60), <1>7, <1>8, <1>9, <1>12, <2>1, InfoRoundTrip
  <2>2. CASE v \notin InfoVars(p)
    <3>1. v \in CredentialVars(p) /\ CredentialRpcToApi(p, ci[p])[v] # None
      BY Zenon, <1>2, <1>3, <2>2, CredentialHasRequired
    <3> QED BY Zenon, <1>9, <1>12, <3>1
  <2> QED BY Zenon, <2>1, <2>2
<1> QED BY Zenon, <1>10, <1>12, <1>15, <1>16, <1>17

\* A bucket info decodes to a message exactly if it was one, valid or not.
LEMMA InfoDecodes ==
    ASSUME NEW p \in ApiProtocols, NEW m \in Message(p) \cup {None}
    PROVE  InfoApiToRpc(p, InfoRpcToApi(p, m)) # None <=> m # None
<1>1. CASE m = None
  <2>1. InfoRpcToApi(p, m) = NoVars
    BY Zenon, <1>1 DEF ApiProtocols, InfoRpcToApi, S3InfoRpcToApi, AzureInfoRpcToApi, GcsInfoRpcToApi
  <2> QED BY Zenon, <1>1, <2>1, NoVarsOK DEF ApiProtocols, InfoApiToRpc, S3InfoApiToRpc,
             AzureInfoApiToRpc, GcsInfoApiToRpc
<1>2. CASE m # None
  <2>0. m \in Message(p)
    BY Zenon, <1>2
  <2>1. PICK ivars : ivars = InfoRpcToApi(p, m)
    BY Zenon
  <2>2. DOMAIN ivars = InfoVars(p) /\ InfoVars(p) # {}
    BY Zenon, <1>2, <2>1, InfoIsMap, VarsAreDisjoint
  <2>3. CASE p = "S3"
    <3>1. InfoApiToRpc(p, ivars) \in S3BucketInfo
      BY Zenon, <1>2, <2>0, <2>1, <2>3 DEF Message, InfoRpcToApi, S3InfoRpcToApi, InfoApiToRpc,
         S3InfoApiToRpc, Get, S3BucketInfo, S3AddressingStyle
    <3> QED BY Zenon, <1>2, <2>1, <3>1, MessageAssumption
  <2>4. CASE p = "Azure"
    <3>1. InfoApiToRpc(p, ivars) \in AzureBucketInfo
      BY Zenon, <1>2, <2>0, <2>1, <2>4 DEF Message, InfoRpcToApi, AzureInfoRpcToApi, InfoApiToRpc,
         AzureInfoApiToRpc, Get, AzureBucketInfo
    <3> QED BY Zenon, <1>2, <2>1, <3>1, MessageAssumption
  <2>5. CASE p = "GCS"
    <3>1. InfoApiToRpc(p, ivars) \in GcsBucketInfo
      BY Zenon, <1>2, <2>0, <2>1, <2>5 DEF Message, InfoRpcToApi, GcsInfoRpcToApi, InfoApiToRpc,
         GcsInfoApiToRpc, Get, GcsBucketInfo
    <3> QED BY Zenon, <1>2, <2>1, <3>1, MessageAssumption
  <2> QED BY Zenon, <2>3, <2>4, <2>5 DEF ApiProtocols
<1> QED BY Zenon, <1>1, <1>2
-----------------------------------------------------------------------------
(***************************************************************************)
(* The Bucket.                                                             *)
(***************************************************************************)
BucketFields == {"protocols", "readyToUse", "statusProtocols", "bucketInfo", "error"}
BucketJobFields == {"pc", "current", "answer", "error"}

NoBucket == bucket = None /\ ~bucketQueued /\ bucketJob = BucketJobIdle

Tells ==
    bucket.readyToUse =>
        /\ bucket.protocols \subseteq bucket.statusProtocols
        /\ \A p \in ApiProtocols :
             p \in bucket.statusProtocols
               <=> InfoApiToRpc(p, Pick(bucket.bucketInfo, InfoVars(p))) # None

BucketJobOK ==
    /\ DOMAIN bucketJob = BucketJobFields
    /\ bucketJob.pc = "setStatus" => bucketJob.answer # None
    /\ bucketJob.answer # None =>
         bucketJob.answer \in BucketAnswers /\ BucketAnswerOK(bucketJob.answer)

\* There is no Bucket and nothing happens, or there is one: its status tells one
\* story, and so does the answer that its reconcile holds.
BucketInv == NoBucket \/ (DOMAIN bucket = BucketFields /\ Tells /\ BucketJobOK)

\* The status made from an answer that was accepted tells one story.
LEMMA AnswerTells ==
    ASSUME NEW resp \in BucketAnswers, BucketAnswerOK(resp)
    PROVE  /\ bucket.protocols \subseteq returnedProtos(resp.protocols)
           /\ \A p \in ApiProtocols :
                p \in returnedProtos(resp.protocols) <=>
                  InfoApiToRpc(p, Pick(BucketInfoToApi(resp.protocols), InfoVars(p))) # None
<1>1. PICK bi : bi = resp.protocols
  BY Zenon
<1>2. bi \in BucketInfoMessage
  BY Zenon, <1>1, DriverAssumption DEF BucketAnswerOK, BucketInfoTranslates
<1>3. ASSUME NEW p \in ApiProtocols
      PROVE  p \in returnedProtos(bi) <=>
               InfoApiToRpc(p, Pick(BucketInfoToApi(bi), InfoVars(p))) # None
  <2>1. Pick(BucketInfoToApi(bi), InfoVars(p)) = InfoRpcToApi(p, bi[p])
    BY Zenon, InfoOfProtocol
  <2>2. bi[p] \in Message(p) \cup {None}
    BY Zenon, <1>2 DEF BucketInfoMessage, Message, ApiProtocols
  <2>3. p \in returnedProtos(bi) <=> bi[p] # None
    BY Zenon DEF returnedProtos
  <2> QED BY Zenon, <2>1, <2>2, <2>3, InfoDecodes
<1> QED BY Zenon, <1>1, <1>3 DEF BucketAnswerOK

\* A Bucket that is as it was, or has the status made from an accepted answer, and
\* any error.
LEMMA BucketWritten ==
    ASSUME DOMAIN bucket = BucketFields, Tells, NEW e, NEW resp,
           \/ bucket' = bucket \/ bucket' = [bucket EXCEPT !.error = e]
           \/ /\ resp \in BucketAnswers /\ BucketAnswerOK(resp)
              /\ bucket' \in {ReadyBucket(resp), [ReadyBucket(resp) EXCEPT !.error = e]}
    PROVE  DOMAIN bucket' = BucketFields /\ Tells' /\ bucket'.protocols = bucket.protocols
<1>1. CASE bucket' = bucket \/ bucket' = [bucket EXCEPT !.error = e]
  <2>1. /\ DOMAIN bucket' = BucketFields /\ bucket'.protocols = bucket.protocols
        /\ bucket'.readyToUse = bucket.readyToUse
        /\ bucket'.statusProtocols = bucket.statusProtocols
        /\ bucket'.bucketInfo = bucket.bucketInfo
    BY Zenon, <1>1 DEF BucketFields
  <2> QED BY Zenon, <2>1 DEF Tells
<1>2. CASE /\ resp \in BucketAnswers /\ BucketAnswerOK(resp)
           /\ bucket' \in {ReadyBucket(resp), [ReadyBucket(resp) EXCEPT !.error = e]}
  <2>1. /\ DOMAIN bucket' = BucketFields /\ bucket'.protocols = bucket.protocols
        /\ bucket'.statusProtocols = returnedProtos(resp.protocols)
        /\ bucket'.bucketInfo = BucketInfoToApi(resp.protocols)
    BY ZenonT(30), <1>2 DEF BucketFields, ReadyBucket
  <2> QED BY Zenon, <1>2, <2>1, AnswerTells DEF Tells
<1> QED BY Zenon, <1>1, <1>2

\* A step keeps the Bucket's protocols, so an accepted answer stays accepted.
LEMMA BucketJobKept ==
    ASSUME BucketJobOK, bucket'.protocols = bucket.protocols,
           DOMAIN bucketJob' = BucketJobFields,
           bucketJob'.pc = "setStatus" => bucketJob'.answer # None,
           bucketJob'.answer \in {None, bucketJob.answer}
    PROVE  BucketJobOK'
BY Zenon DEF BucketJobOK, BucketAnswerOK

\* The steps of the Bucket's reconcile.
LEMMA BucketReconcileKeeps ==
    ASSUME BucketInv, EnqueueBucket \/ BucketReconcile
    PROVE  BucketInv'
<1>1. /\ DOMAIN BucketJobIdle = BucketJobFields /\ BucketJobIdle.answer = None
      /\ BucketJobIdle.pc = "idle"
      /\ \A e : /\ DOMAIN FailBucketJob(e) = BucketJobFields /\ FailBucketJob(e).answer = None
                /\ FailBucketJob(e).pc = "report"
  BY Zenon DEF BucketJobIdle, FailBucketJob, BucketJobFields
<1>0. /\ DOMAIN bucket = BucketFields /\ Tells /\ BucketJobOK
      /\ DOMAIN bucketJob = BucketJobFields
  <2>1. ~NoBucket
    BY Zenon, <1>1 DEF NoBucket, EnqueueBucket, BucketReconcile, BucketStart,
       BucketProvision, BucketSetStatus, BucketReport
  <2> QED BY Zenon, <2>1 DEF BucketInv, BucketJobOK
<1>2. CASE EnqueueBucket
  BY Zenon, <1>0, <1>2, BucketJobKept DEF EnqueueBucket, BucketInv, Tells, BucketJobOK
<1>3. CASE BucketStart
  <2>1. PICK w : w = [BucketJobIdle EXCEPT !.pc = "provision"]
    BY Zenon
  <2>2. DOMAIN w = BucketJobFields /\ w.answer = None /\ w.pc = "provision"
    BY Zenon, <2>1 DEF BucketJobIdle, BucketJobFields
  <2>3. bucket' = bucket /\ bucketJob' \in {w, FailBucketJob("terminal")}
    BY Zenon, <1>3, <2>1 DEF BucketStart
  <2>4. BucketJobOK'
    BY Zenon, <1>0, <1>1, <2>2, <2>3, BucketJobKept
  <2> QED BY Zenon, <1>0, <2>3, <2>4 DEF BucketInv, Tells
<1>4. CASE BucketProvision
  <2>0. bucket' = bucket
    BY Zenon, <1>4 DEF BucketProvision
  <2>1. CASE \E e : bucketJob' = FailBucketJob(e)
    <3>1. BucketJobOK'
      BY Zenon, <1>0, <1>1, <2>0, <2>1, BucketJobKept
    <3> QED BY Zenon, <1>0, <2>0, <3>1 DEF BucketInv, Tells
  <2>2. ASSUME NEW resp \in BucketAnswers, BucketAnswerOK(resp),
               bucketJob' = [bucketJob EXCEPT !.pc = "setStatus", !.answer = resp]
        PROVE  BucketInv'
    <3>1. DOMAIN bucketJob' = BucketJobFields /\ bucketJob'.answer = resp
      BY Zenon, <1>0, <2>2 DEF BucketJobFields
    <3>2. resp # None /\ BucketAnswerOK(resp)'
      BY Zenon, <2>0, <2>2, DriverAssumption DEF BucketAnswerOK
    <3>3. BucketJobOK'
      BY Zenon, <2>2, <3>1, <3>2 DEF BucketJobOK
    <3> QED BY Zenon, <1>0, <2>0, <3>3 DEF BucketInv, Tells
  <2> QED BY Zenon, <1>4, <2>1, <2>2 DEF BucketProvision
<1>5. CASE BucketSetStatus
  <2>1. PICK w, c : /\ w = [bucketJob EXCEPT !.pc = "report", !.error = "retry", !.current = c]
                    /\ bucketJob' \in {BucketJobIdle, w}
                    /\ bucket' \in {bucket, ReadyBucket(bucketJob.answer)}
    BY Zenon, <1>5 DEF BucketSetStatus
  <2>2. DOMAIN w = BucketJobFields /\ w.answer = bucketJob.answer /\ w.pc = "report"
    BY Zenon, <1>0, <2>1 DEF BucketJobFields
  <2>3. bucketJob.answer \in BucketAnswers /\ BucketAnswerOK(bucketJob.answer)
    BY Zenon, <1>0, <1>5 DEF BucketSetStatus, BucketJobOK
  <2>4. DOMAIN bucket' = BucketFields /\ Tells' /\ bucket'.protocols = bucket.protocols
    BY Zenon, <1>0, <2>1, <2>3, BucketWritten
  <2>5. BucketJobOK'
    BY Zenon, <1>0, <1>1, <2>1, <2>2, <2>4, BucketJobKept
  <2> QED BY Zenon, <2>4, <2>5 DEF BucketInv
<1>6. CASE BucketReport
  <2>1. \/ bucket' = bucket \/ bucket' = [bucket EXCEPT !.error = bucketJob.error]
        \/ /\ bucketJob.answer # None
           /\ bucket' = [ReadyBucket(bucketJob.answer) EXCEPT !.error = bucketJob.error]
    BY Zenon, <1>6 DEF BucketReport
  <2>2. bucketJob' = BucketJobIdle
    BY Zenon, <1>6 DEF BucketReport
  <2>3. DOMAIN bucket' = BucketFields /\ Tells' /\ bucket'.protocols = bucket.protocols
    BY Zenon, <1>0, <2>1, BucketWritten DEF BucketJobOK
  <2>4. BucketJobOK'
    BY Zenon, <1>0, <1>1, <2>2, <2>3, BucketJobKept
  <2> QED BY Zenon, <2>3, <2>4 DEF BucketInv
<1> QED BY Zenon, <1>2, <1>3, <1>4, <1>5, <1>6 DEF BucketReconcile

\* No other step changes a Bucket; a restart forgets its reconcile.
LEMMA OthersKeepBucket ==
    ASSUME BucketInv, bucket' = bucket,
           \/ bucketJob' = bucketJob /\ bucketQueued' \in {bucketQueued, bucket # None}
           \/ bucketJob' = BucketJobIdle /\ ~bucketQueued'
    PROVE  BucketInv'
<1>1. DOMAIN BucketJobIdle = BucketJobFields /\ BucketJobIdle.answer = None
      /\ BucketJobIdle.pc = "idle"
  BY Zenon DEF BucketJobIdle, BucketJobFields
<1>2. CASE NoBucket
  BY ZenonT(30), <1>2 DEF NoBucket, BucketInv
<1>3. CASE DOMAIN bucket = BucketFields /\ Tells /\ BucketJobOK
  <2>1. BucketJobOK'
    BY Zenon, <1>1, <1>3, BucketJobKept DEF BucketJobOK
  <2> QED BY Zenon, <1>3, <2>1 DEF BucketInv, Tells
<1> QED BY Zenon, <1>2, <1>3 DEF BucketInv
-----------------------------------------------------------------------------
(***************************************************************************)
(* The BucketAccess: its requests.                                         *)
(***************************************************************************)
AccessFields == {"protocol", "authenticationType", "bucketClaims", "accessedBuckets",
                 "accountID", "readyToUse", "error", "deleting", "cleanupFinished"}
JobFields == {"pc", "current", "accountID", "readyToUse", "answer", "todo", "error"}

Configs == BucketConfigs(access)
Usable == AccessConfigOK(access) /\ BucketConfigsOK(access)
Good(resp) == resp \in GrantAnswers /\ Accepted(resp) /\ Usable

\* The access is one that was submitted and handed over.
AccessShape ==
    /\ DOMAIN access = AccessFields
    /\ \E sub \in Submitted :
         /\ access.protocol = sub.protocol
         /\ access.authenticationType = sub.authenticationType
         /\ access.bucketClaims = sub.bucketClaims
         /\ access.accessedBuckets = compileAccessedBuckets(sub.bucketClaims, sub.idOf)

\* What a request is made of stays.
RequestKept ==
    /\ DOMAIN access' = AccessFields
    /\ access'.protocol = access.protocol
    /\ access'.authenticationType = access.authenticationType
    /\ access'.bucketClaims = access.bucketClaims
    /\ access'.accessedBuckets = access.accessedBuckets

\* The request depends on claims and IDs only.
LEMMA SameConfigs ==
    ASSUME NEW a, NEW b, a.bucketClaims = b.bucketClaims,
           a.accessedBuckets = b.accessedBuckets
    PROVE  BucketConfigs(a) = BucketConfigs(b) /\ BucketConfigsOK(a) = BucketConfigsOK(b)
<1>1. \A ref : bucketIdOf(a, ref) = bucketIdOf(b, ref)
  BY Zenon DEF bucketIdOf
<1>2. \A id : refsTo(a, id) = refsTo(b, id)
  BY Zenon, <1>1 DEF refsTo
<1>3. BucketConfigsOK(a) = BucketConfigsOK(b)
  BY Zenon, <1>1 DEF BucketConfigsOK
<1>4. {bucketIdOf(a, a.bucketClaims[i]) : i \in DOMAIN a.bucketClaims}
        = {bucketIdOf(b, b.bucketClaims[i]) : i \in DOMAIN b.bucketClaims}
  BY Zenon, <1>1
<1>5. BucketConfigs(a) = BucketConfigs(b)
  BY SMTT(60), <1>2, <1>4 DEF BucketConfigs
<1> QED BY Zenon, <1>3, <1>5

\* So does what the driver is to answer.
LEMMA RequestStable ==
    ASSUME AccessShape, RequestKept
    PROVE  /\ AccessShape'
           /\ Configs' = Configs /\ GrantedNow' = GrantedNow
           /\ RevokeBucketList(access)' = RevokeBucketList(access)
           /\ Usable => Usable'
           /\ \A resp : Accepted(resp) => Accepted(resp)'
<1>1. AccessShape'
  BY Zenon DEF AccessShape, RequestKept
<1>2. Configs' = Configs /\ (BucketConfigsOK(access)' <=> BucketConfigsOK(access))
  <2>1. PICK a, b : a = access /\ b = access'
    BY Zenon
  <2>2. BucketConfigs(b) = BucketConfigs(a) /\ BucketConfigsOK(b) = BucketConfigsOK(a)
    BY Zenon, <2>1, SameConfigs DEF RequestKept
  <2> QED BY Zenon, <2>1, <2>2 DEF Configs
<1>3. GrantedNow' = GrantedNow
  BY Zenon, <1>2 DEF GrantedNow, Configs
<1>4. RevokeBucketList(access)' = RevokeBucketList(access)
  BY Zenon DEF RevokeBucketList, RequestKept
<1>5. Usable => Usable'
  BY Zenon, <1>2 DEF Usable, AccessConfigOK, RequestKept
<1>6. Validation' = Validation
  BY Zenon DEF Validation, RequestKept
<1>7. \A resp : Accepted(resp) => Accepted(resp)'
  BY Zenon, <1>2, <1>6 DEF Accepted, Configs
<1> QED BY Zenon, <1>1, <1>2, <1>3, <1>4, <1>5, <1>7

\* Each bucket of the request has the Secret of the last reference to it, and no
\* other bucket has that one.
LEMMA ConfigsOK ==
    ASSUME AccessShape, NEW id \in DOMAIN Configs
    PROVE  LET s == Configs[id].accessSecretName
           IN  /\ s \in SecretName
               /\ \A i \in DOMAIN access.bucketClaims :
                    access.bucketClaims[i].accessSecretName = s =>
                      i = Last(refsTo(access, id)) /\ bucketIdOf(access, access.bucketClaims[i]) = id
               /\ \A jd \in DOMAIN Configs : Configs[jd].accessSecretName = s => jd = id
<1>1. PICK sub \in Submitted : access.bucketClaims = sub.bucketClaims
  BY Zenon DEF AccessShape
<1>2. /\ Len(access.bucketClaims) \in Nat
      /\ DOMAIN access.bucketClaims = 1 .. Len(access.bucketClaims)
      /\ \A i, j \in DOMAIN access.bucketClaims :
           access.bucketClaims[i].accessSecretName = access.bucketClaims[j].accessSecretName
             => i = j
  BY Zenon, <1>1, DriverAssumption DEF IsList
<1>3. ASSUME NEW jd \in DOMAIN Configs
      PROVE  LET i == Last(refsTo(access, jd))
             IN  /\ i \in DOMAIN access.bucketClaims
                 /\ bucketIdOf(access, access.bucketClaims[i]) = jd
                 /\ Configs[jd].accessSecretName = access.bucketClaims[i].accessSecretName
  <2>1. PICK i : i = Last(refsTo(access, jd))
    BY Zenon
  <2>2. refsTo(access, jd) \subseteq DOMAIN access.bucketClaims
    BY Zenon DEF refsTo
  <2>3. refsTo(access, jd) # {}
    BY Zenon, <1>3 DEF refsTo, Configs, BucketConfigs
  <2>4. i \in refsTo(access, jd)
    BY Zenon, <1>2, <2>1, <2>2, <2>3, LastIsOne
  <2>5. Configs[jd].accessSecretName = access.bucketClaims[i].accessSecretName
    BY Zenon, <1>3, <2>1 DEF Configs, BucketConfigs
  <2> QED BY Zenon, <2>1, <2>4, <2>5 DEF refsTo
<1>4. PICK i : i = Last(refsTo(access, id))
  BY Zenon
<1>5. PICK s : s = Configs[id].accessSecretName
  BY Zenon
<1>6. /\ i \in DOMAIN access.bucketClaims /\ bucketIdOf(access, access.bucketClaims[i]) = id
      /\ s = access.bucketClaims[i].accessSecretName
  BY Zenon, <1>3, <1>4, <1>5
<1>7. s \in SecretName
  <2>1. access.bucketClaims[i] \in Refs(sub)
    BY Zenon, <1>1, <1>6 DEF Refs
  <2>2. s \in {ref.accessSecretName : ref \in Refs(sub)}
    BY Zenon, <1>6, <2>1
  <2> QED BY Zenon, <2>2 DEF SecretName
<1>8. \A k \in DOMAIN access.bucketClaims :
        access.bucketClaims[k].accessSecretName = s => k = i
  BY Zenon, <1>2, <1>6
<1>9. \A jd \in DOMAIN Configs : Configs[jd].accessSecretName = s => jd = id
  BY Zenon, <1>3, <1>6, <1>8
<1> QED BY Zenon, <1>4, <1>5, <1>6, <1>7, <1>8, <1>9

\* The Secret that a reference names is one of the Secrets.
LEMMA ReferencedSecret ==
    ASSUME AccessShape, NEW i \in DOMAIN access.bucketClaims
    PROVE  access.bucketClaims[i].accessSecretName \in SecretName
<1>1. PICK sub \in Submitted : access.bucketClaims = sub.bucketClaims
  BY Zenon DEF AccessShape
<1>2. access.bucketClaims[i] \in Refs(sub)
  BY Zenon, <1>1 DEF Refs
<1>3. access.bucketClaims[i].accessSecretName \in {ref.accessSecretName : ref \in Refs(sub)}
  BY Zenon, <1>2
<1> QED BY Zenon, <1>3 DEF SecretName

\* newInternalRevokeAccessConfig lists every bucket that the grant asks for.
LEMMA GrantIsRevocable ==
    ASSUME AccessShape, Usable
    PROVE  DOMAIN GrantedNow \subseteq RevokeBucketList(access)
<1>1. DOMAIN GrantedNow = {bucketIdOf(access, access.bucketClaims[i]) :
                             i \in DOMAIN access.bucketClaims}
  BY Zenon DEF GrantedNow, BucketConfigs
<1>2. PICK sub \in Submitted :
        /\ access.bucketClaims = sub.bucketClaims
        /\ access.accessedBuckets = compileAccessedBuckets(sub.bucketClaims, sub.idOf)
  BY Zenon DEF AccessShape
<1>3. DOMAIN access.accessedBuckets = DOMAIN sub.bucketClaims
  BY Zenon, <1>2 DEF compileAccessedBuckets
<1>4. ASSUME NEW i \in DOMAIN access.bucketClaims
      PROVE  bucketIdOf(access, access.bucketClaims[i]) \in RevokeBucketList(access)
  <2>1. PICK at : at = {k \in DOMAIN access.accessedBuckets :
                          access.accessedBuckets[k].bucketClaimName =
                            access.bucketClaims[i].bucketClaimName}
    BY Zenon
  <2>2. bucketIdOf(access, access.bucketClaims[i]) # None
    BY ZenonT(30) DEF Usable, BucketConfigsOK
  <2>3. at # {} /\ bucketIdOf(access, access.bucketClaims[i])
                     = access.accessedBuckets[Last(at)].bucketID
    BY Zenon, <2>1, <2>2 DEF bucketIdOf
  <2>4. at \subseteq 1 .. Len(sub.bucketClaims) /\ Len(sub.bucketClaims) \in Nat
    BY Zenon, <1>3, <2>1, DriverAssumption DEF IsList
  <2>5. Last(at) \in DOMAIN access.accessedBuckets
    BY Zenon, <2>1, <2>3, <2>4, LastIsOne
  <2> QED BY Zenon, <2>3, <2>5 DEF RevokeBucketList
<1> QED BY Zenon, <1>1, <1>4

\* An accepted answer has credentials of the protocol of the access.
LEMMA GoodAnswer ==
    ASSUME AccessShape, NEW resp, Good(resp)
    PROVE  /\ resp \in GrantAnswers /\ access.protocol \in ApiProtocols /\ Validation # None
           /\ GrantResponseTranslates(resp, Validation)
           /\ resp \in AnswersWith[access.protocol]
<1>1. access.protocol \in ApiProtocols
  <2>1. ProtocolApiToRpc(access.protocol) # "UNKNOWN"
    BY Zenon DEF Good, Usable, AccessConfigOK
  <2> QED BY SMTT(60), <2>1 DEF ProtocolApiToRpc, objectProtocolProtoApiMapping, ApiProtocols
<1>2. Validation # None
  <2>1. PICK sub \in Submitted : /\ access.protocol = sub.protocol
                                 /\ access.authenticationType = sub.authenticationType
    BY Zenon DEF AccessShape
  <2> QED BY Zenon, <2>1, DriverAssumption DEF Validation
<1>3. resp \in GrantAnswers /\ GrantResponseTranslates(resp, Validation)
  BY Zenon DEF Good, Accepted
<1>4. resp \in AnswersWith[access.protocol]
  BY ZenonT(60), <1>1, <1>2, <1>3, AnswerCredentials DEF Validation
<1> QED BY Zenon, <1>1, <1>2, <1>3, <1>4

\* What an accepted answer makes of the Secret of a bucket.
LEMMA GoodData ==
    ASSUME AccessShape, NEW resp, Good(resp), NEW id \in DOMAIN Configs
    PROVE  /\ IsMap(StringData(resp, id))
           /\ DOMAIN StringData(resp, id) =
                InfoVars(access.protocol) \cup CredentialVars(access.protocol)
           /\ access.protocol \in ApiProtocols
           /\ resp \in AnswersWith[access.protocol]
           /\ IsSaidBy(Decoded(StringData(resp, id), access.protocol), access.protocol, resp, id)
           /\ \A v \in RequiredOfProtocol(access.protocol, access.authenticationType) :
                StringData(resp, id)[v] # None
<1>1. /\ resp \in GrantAnswers /\ access.protocol \in ApiProtocols /\ Validation # None
      /\ GrantResponseTranslates(resp, Validation)
  BY Zenon, GoodAnswer
<1>2. id \in DOMAIN BucketInfoByBucketId(resp)
  BY Zenon DEF Good, Accepted, validateGrantedAccess, Configs
<1> QED BY Zenon, <1>1, <1>2, StringDataOK DEF Validation
-----------------------------------------------------------------------------
(***************************************************************************)
(* The BucketAccess: the inductive invariant.                              *)
(***************************************************************************)
NoAccess == access = None /\ ~queued /\ job = JobIdle

\* The buckets ids of the request have in their Secrets what resp says.
Filled(resp, ids) ==
    \A id \in ids : secrets[Configs[id].accessSecretName] = StringData(resp, id)

\* A Secret is empty or holds what one accepted answer says of its bucket.
SecretsOK ==
    /\ DOMAIN secrets = SecretName
    /\ \A s \in SecretName :
         \/ secrets[s] = NoVars
         \/ \E id \in DOMAIN Configs, resp \in GrantAnswers :
              /\ Good(resp) /\ Configs[id].accessSecretName = s
              /\ secrets[s] = StringData(resp, id)

\* What the reconcile knows at each point.
Cleanup == {"clearStatus", "deleteSecrets", "revoke", "finish"}
JobOK ==
    /\ DOMAIN job = JobFields
    /\ job.pc = "grant" => Usable
    /\ job.pc \in {"fill", "setReady"} =>
         /\ Good(job.answer)
         /\ granted = GrantedNow
         /\ job.error = "none" => Filled(job.answer, DOMAIN Configs \ job.todo)
    /\ job.pc = "fill" => job.todo \subseteq DOMAIN Configs
    /\ job.pc = "setReady" => job.error = "none" /\ job.todo = {}
    /\ job.pc = "report" => job.error # "none"
    /\ job.pc \in Cleanup =>
         access.deleting /\ ~access.cleanupFinished /\ job.accountID = access.accountID
    /\ job.pc = "finish" /\ job.accountID # None => DOMAIN granted = {}

\* What was granted can be revoked; after the cleanup nothing more is written.
GrantOK ==
    /\ DOMAIN granted \subseteq RevokeBucketList(access)
    /\ access.cleanupFinished =>
         /\ access.deleting
         /\ job.pc = "idle" \/ (job.pc = "report" /\ ~job.current)
         /\ access.accountID # None => DOMAIN granted = {}

SettledOK ==
    Settled => \E resp \in GrantAnswers :
                 Good(resp) /\ Filled(resp, DOMAIN Configs) /\ granted = GrantedNow

AccessInv == NoAccess \/ (AccessShape /\ SecretsOK /\ JobOK /\ GrantOK /\ SettledOK)

\* Secrets that do not change stay right.
LEMMA SecretsKept ==
    ASSUME AccessShape, SecretsOK, RequestKept, secrets' = secrets
    PROVE  SecretsOK'
<1>1. Configs' = Configs /\ \A resp : Good(resp) => Good(resp)'
  BY Zenon, RequestStable DEF Good
<1> QED BY ZenonT(60), <1>1 DEF SecretsOK

\* A step that ends in no settled state, and in no state between grant and status.
LEMMA UnsettledStep ==
    ASSUME AccessShape, SecretsOK, RequestKept, secrets' = secrets, ~Settled',
           DOMAIN job' = JobFields, job'.pc \notin {"grant", "fill", "setReady"} \cup Cleanup,
           job'.pc = "report" => job'.error # "none",
           GrantOK'
    PROVE  AccessInv'
<1>1. AccessShape' /\ SecretsOK' /\ SettledOK'
  BY Zenon, RequestStable, SecretsKept DEF SettledOK
<1>2. JobOK'
  BY Zenon DEF JobOK, Cleanup
<1> QED BY Zenon, <1>1, <1>2 DEF AccessInv

\* The fields of the two kinds of jobs that actions make.
LEMMA JobFieldsOK ==
    ASSUME DOMAIN job = JobFields
    PROVE  /\ DOMAIN JobIdle = JobFields /\ JobIdle.pc = "idle" /\ JobIdle.error = "none"
           /\ ~JobIdle.current
           /\ \A e : /\ DOMAIN FailJob(e) = JobFields /\ FailJob(e).pc = "report"
                     /\ FailJob(e).error = e /\ FailJob(e).current = job.current
BY Zenon DEF JobIdle, FailJob, JobFields

\* A job that goes on as it was, with Secrets and grants as they were.
LEMMA JobKept ==
    ASSUME AccessShape, JobOK, RequestKept, secrets' = secrets, granted' = granted,
           DOMAIN job' = JobFields, job'.pc = job.pc, job'.answer = job.answer,
           job'.todo = job.todo, job'.error = job.error, job'.accountID = job.accountID,
           access'.accountID = access.accountID, access.deleting => access'.deleting,
           ~access.cleanupFinished => ~access'.cleanupFinished
    PROVE  JobOK'
<1>1. /\ Configs' = Configs /\ GrantedNow' = GrantedNow /\ (Usable => Usable')
      /\ \A resp : Good(resp) => Good(resp)'
  BY Zenon, RequestStable DEF Good
<1>2. \A resp, ids : Filled(resp, ids) => Filled(resp, ids)'
  BY Zenon, <1>1 DEF Filled
<1> QED BY Zenon, <1>1, <1>2 DEF JobOK

\* Steps of the reconcile, events and deletion need an access.
LEMMA ThereIsAnAccess ==
    ASSUME AccessInv, Enqueue \/ DeleteAccess \/ AccessReconcile
    PROVE  /\ AccessShape /\ SecretsOK /\ JobOK /\ GrantOK /\ SettledOK
           /\ DOMAIN access = AccessFields /\ DOMAIN job = JobFields
           /\ pc' = pc /\ bucket' = bucket /\ bucketJob' = bucketJob
           /\ bucketQueued' = bucketQueued
<1>1. JobIdle.pc = "idle"
  BY Zenon DEF JobIdle
<1>2. ~NoAccess
  BY Zenon, <1>1 DEF NoAccess, Enqueue, DeleteAccess, AccessReconcile, AccessStart, Grant, Fill,
     SetReady, Report, ClearStatus, DeleteSecrets, Revoke, Finish
<1>3. unchangedByAccess
  BY Zenon DEF Enqueue, DeleteAccess, AccessReconcile, AccessStart, Grant, Fill,
     SetReady, Report, ClearStatus, DeleteSecrets, Revoke, Finish
<1> QED BY Zenon, <1>2, <1>3 DEF AccessInv, AccessShape, JobOK, unchangedByAccess, mainVars,
           bucketVars

\* An event.
LEMMA EnqueueKeeps ==
    ASSUME AccessInv, Enqueue
    PROVE  AccessInv'
<1>0. /\ AccessShape /\ SecretsOK /\ JobOK /\ GrantOK
      /\ DOMAIN access = AccessFields /\ DOMAIN job = JobFields
  BY Zenon, ThereIsAnAccess
<1>1. /\ access' = access /\ secrets' = secrets /\ job' = job /\ granted' = granted
      /\ queued' = TRUE
  BY Zenon DEF Enqueue
<1>2. RequestKept
  BY Zenon, <1>0, <1>1 DEF RequestKept
<1>3. AccessShape' /\ SecretsOK' /\ JobOK'
  BY Zenon, <1>0, <1>1, <1>2, RequestStable, SecretsKept, JobKept
<1>4. GrantOK' /\ SettledOK'
  BY Zenon, <1>0, <1>1 DEF GrantOK, SettledOK, Settled
<1> QED BY Zenon, <1>3, <1>4 DEF AccessInv

\* The user deletes the access.
LEMMA DeleteAccessKeeps ==
    ASSUME AccessInv, DeleteAccess
    PROVE  AccessInv'
<1>0. /\ AccessShape /\ SecretsOK /\ JobOK /\ GrantOK
      /\ DOMAIN access = AccessFields /\ DOMAIN job = JobFields
  BY Zenon, ThereIsAnAccess
<1>1. /\ access' = [access EXCEPT !.deleting = TRUE] /\ job' = [job EXCEPT !.current = FALSE]
      /\ secrets' = secrets /\ granted' = granted /\ ~access.deleting
  BY Zenon DEF DeleteAccess
<1>2. /\ RequestKept /\ access'.deleting /\ access'.accountID = access.accountID
      /\ access'.cleanupFinished = access.cleanupFinished
  BY Zenon, <1>0, <1>1 DEF RequestKept, AccessFields
<1>3. /\ DOMAIN job' = JobFields /\ job'.pc = job.pc /\ job'.answer = job.answer
      /\ job'.todo = job.todo /\ job'.error = job.error /\ job'.accountID = job.accountID
  BY Zenon, <1>0, <1>1 DEF JobFields
<1>4. ~access.cleanupFinished
  BY Zenon, <1>0, <1>1 DEF GrantOK
<1>5. AccessShape' /\ SecretsOK' /\ JobOK'
  BY Zenon, <1>0, <1>1, <1>2, <1>3, <1>4, RequestStable, SecretsKept, JobKept
<1>6. GrantOK'
  BY Zenon, <1>0, <1>1, <1>2, <1>4, RequestStable DEF GrantOK
<1>7. SettledOK'
  BY Zenon, <1>2 DEF SettledOK, Settled
<1> QED BY Zenon, <1>5, <1>6, <1>7 DEF AccessInv

\* A reconcile begins.
LEMMA AccessStartKeeps ==
    ASSUME AccessInv, AccessStart
    PROVE  AccessInv'
<1>0. /\ AccessShape /\ SecretsOK /\ JobOK /\ GrantOK
      /\ DOMAIN access = AccessFields /\ DOMAIN job = JobFields
  BY Zenon, ThereIsAnAccess DEF AccessReconcile
<1>1. access' = access /\ secrets' = secrets /\ granted' = granted
  BY Zenon DEF AccessStart
<1>2. RequestKept
  BY Zenon, <1>0, <1>1 DEF RequestKept
<1>3. PICK w : w = [JobIdle EXCEPT !.pc = "grant", !.current = TRUE,
                                   !.accountID = access.accountID,
                                   !.readyToUse = access.readyToUse]
  BY Zenon
<1>4. job' = IF access.deleting
             THEN IF access.cleanupFinished THEN JobIdle ELSE [w EXCEPT !.pc = "clearStatus"]
             ELSE IF Usable THEN w ELSE [w EXCEPT !.pc = "report", !.error = "terminal"]
  BY Zenon, <1>3 DEF AccessStart, Usable
<1>5. AccessShape' /\ SecretsOK' /\ (Usable => Usable')
  BY Zenon, <1>0, <1>1, <1>2, RequestStable, SecretsKept
<1>6. /\ DOMAIN w = JobFields /\ w.pc = "grant" /\ w.accountID = access.accountID
  BY Zenon, <1>3 DEF JobIdle, JobFields
<1>7. CASE access.deleting /\ access.cleanupFinished
  <2>1. job' = JobIdle
    BY Zenon, <1>4, <1>7
  <2>2. GrantOK'
    BY Zenon, <1>0, <1>1, <2>1, JobFieldsOK DEF GrantOK
  <2>3. ~Settled'
    BY Zenon, <1>1, <1>7 DEF Settled
  <2> QED BY Zenon, <1>0, <1>1, <1>2, <2>1, <2>2, <2>3, JobFieldsOK, UnsettledStep DEF Cleanup
<1>8. CASE ~(access.deleting /\ access.cleanupFinished)
  <2>1. ~access.cleanupFinished
    BY Zenon, <1>0, <1>8 DEF GrantOK
  <2>2. /\ DOMAIN job' = JobFields /\ job'.accountID = access.accountID
        /\ \/ job'.pc = "clearStatus" /\ access.deleting
           \/ job'.pc = "grant" /\ Usable
           \/ job'.pc = "report" /\ job'.error = "terminal"
    BY Zenon, <1>4, <1>6, <2>1 DEF JobFields
  <2>3. JobOK'
    BY Zenon, <1>1, <1>5, <2>1, <2>2 DEF JobOK, Cleanup
  <2>4. GrantOK' /\ SettledOK'
    BY Zenon, <1>0, <1>1, <2>1, <2>2 DEF GrantOK, SettledOK, Settled
  <2> QED BY Zenon, <1>5, <2>3, <2>4 DEF AccessInv
<1> QED BY Zenon, <1>7, <1>8

\* A reconcile at work on the access has not seen its cleanup finish.
LEMMA AtWork ==
    ASSUME AccessInv, AccessReconcile, job.pc \notin {"idle", "report"}
    PROVE  ~access.cleanupFinished
BY Zenon, ThereIsAnAccess DEF GrantOK

\* DriverGrantBucketAccess: what is granted is on the list of a later revoke.
LEMMA GrantKeeps ==
    ASSUME AccessInv, Grant
    PROVE  AccessInv'
<1>0. /\ AccessShape /\ SecretsOK /\ JobOK /\ GrantOK
      /\ DOMAIN access = AccessFields /\ DOMAIN job = JobFields
      /\ job.pc = "grant" /\ Usable /\ ~access.cleanupFinished
  <2>1. job.pc = "grant" /\ AccessReconcile
    BY Zenon DEF Grant, AccessReconcile
  <2> QED BY Zenon, <2>1, ThereIsAnAccess, AtWork DEF JobOK
<1>1. access' = access /\ secrets' = secrets
  BY Zenon DEF Grant
<1>2. RequestKept
  BY Zenon, <1>0, <1>1 DEF RequestKept
<1>3. /\ AccessShape' /\ SecretsOK' /\ Configs' = Configs /\ GrantedNow' = GrantedNow
      /\ \A resp : Good(resp) => Good(resp)'
  BY Zenon, <1>0, <1>1, <1>2, RequestStable, SecretsKept DEF Good
<1>4. granted' \in {granted, GrantedNow}
  BY Zenon DEF Grant
<1>5. DOMAIN granted' \subseteq RevokeBucketList(access)
  BY Zenon, <1>0, <1>4, GrantIsRevocable DEF GrantOK
<1>6. GrantOK'
  BY Zenon, <1>0, <1>1, <1>5 DEF GrantOK
<1>7. CASE \E e \in {"terminal", "retry"} : job' = FailJob(e)
  <2>1. DOMAIN job' = JobFields /\ job'.pc = "report" /\ job'.error # "none"
    BY Zenon, <1>0, <1>7, JobFieldsOK
  <2> QED BY Zenon, <1>0, <1>1, <1>2, <1>6, <2>1, UnsettledStep DEF Settled, Cleanup
<1>8. CASE /\ granted' = GrantedNow
           /\ \E resp \in GrantAnswers :
                Accepted(resp) /\ job' = [job EXCEPT !.pc = "fill", !.answer = resp,
                                                     !.todo = DOMAIN BucketConfigs(access)]
  <2>1. PICK resp \in GrantAnswers :
          Accepted(resp) /\ job' = [job EXCEPT !.pc = "fill", !.answer = resp,
                                               !.todo = DOMAIN Configs]
    BY Zenon, <1>8 DEF Configs
  <2>2. /\ DOMAIN job' = JobFields /\ job'.pc = "fill" /\ job'.answer = resp
        /\ job'.todo = DOMAIN Configs
    BY Zenon, <1>0, <2>1 DEF JobFields
  <2>3. Good(resp)'
    BY Zenon, <1>0, <1>3, <2>1 DEF Good
  <2>4. Filled(job.answer, DOMAIN Configs \ job.todo)'
    BY Zenon, <1>3, <2>2 DEF Filled
  <2>5. JobOK'
    BY Zenon, <1>3, <1>8, <2>2, <2>3, <2>4 DEF JobOK, Cleanup
  <2> QED BY Zenon, <1>3, <1>6, <2>2, <2>5 DEF AccessInv, SettledOK, Settled
<1> QED
  <2>1. RpcErrors({"OutOfRange"}) \subseteq {"terminal", "retry"}
    BY Zenon DEF RpcErrors
  <2> QED BY Zenon, <1>7, <1>8, <2>1 DEF Grant

\* One Update of updateSecretsWithGrantedInfo: merging the data replaces it.
LEMMA FillKeeps ==
    ASSUME AccessInv, Fill
    PROVE  AccessInv'
<1>0. /\ AccessShape /\ SecretsOK /\ JobOK /\ GrantOK
      /\ DOMAIN access = AccessFields /\ DOMAIN job = JobFields
      /\ job.pc = "fill" /\ Good(job.answer) /\ ~access.cleanupFinished
      /\ granted = GrantedNow /\ job.todo \subseteq DOMAIN Configs
  <2>1. job.pc = "fill" /\ AccessReconcile
    BY Zenon DEF Fill, AccessReconcile
  <2> QED BY Zenon, <2>1, ThereIsAnAccess, AtWork DEF JobOK
<1>1. access' = access /\ granted' = granted
  BY Zenon DEF Fill
<1>2. RequestKept
  BY Zenon, <1>0, <1>1 DEF RequestKept
<1>3. /\ AccessShape' /\ Configs' = Configs /\ GrantedNow' = GrantedNow
      /\ \A resp : Good(resp) => Good(resp)'
  BY Zenon, <1>0, <1>1, <1>2, RequestStable DEF Good
<1>a. PICK id \in job.todo, o \in Outcome :
        LET s == Configs[id].accessSecretName
            e == IF o = "ok" THEN job.error ELSE "retry"
        IN  /\ secrets' = IF Applied(o)
                          THEN [secrets EXCEPT ![s] =
                                  MergeApiInfo(StringData(job.answer, id), secrets[s])]
                          ELSE secrets
            /\ job' = IF job.todo # {id}
                      THEN [job EXCEPT !.todo = job.todo \ {id}, !.error = e]
                      ELSE IF e = "none" THEN [job EXCEPT !.pc = "setReady", !.todo = {}]
                      ELSE FailJob(e)
  BY Zenon DEF Fill, Configs
<1>b. PICK s : s = Configs[id].accessSecretName
  BY Zenon
<1>c. PICK e : e = (IF o = "ok" THEN job.error ELSE "retry")
  BY Zenon
<1>d. PICK data : data = StringData(job.answer, id)
  BY Zenon
<1>4. /\ id \in job.todo /\ s = Configs[id].accessSecretName
      /\ e = (IF o = "ok" THEN job.error ELSE "retry")
      /\ data = StringData(job.answer, id)
      /\ secrets' = IF Applied(o)
                    THEN [secrets EXCEPT ![s] = MergeApiInfo(data, secrets[s])]
                    ELSE secrets
      /\ job' = IF job.todo # {id}
                THEN [job EXCEPT !.todo = job.todo \ {id}, !.error = e]
                ELSE IF e = "none" THEN [job EXCEPT !.pc = "setReady", !.todo = {}]
                ELSE FailJob(e)
  BY Zenon, <1>a, <1>b, <1>c, <1>d
<1>5. id \in DOMAIN Configs
  BY Zenon, <1>0, <1>4
<1>6. /\ s \in SecretName
      /\ \A jd \in DOMAIN Configs : Configs[jd].accessSecretName = s => jd = id
  BY Zenon, <1>0, <1>4, <1>5, ConfigsOK
<1>7. MergeApiInfo(data, secrets[s]) = data
  <2>1. IsMap(data) /\ DOMAIN data = InfoVars(access.protocol) \cup CredentialVars(access.protocol)
    BY Zenon, <1>0, <1>4, <1>5, GoodData
  <2>2. CASE secrets[s] = NoVars
    BY Zenon, <2>1, <2>2, NoVarsOK, MergeReplaces
  <2>3. CASE \E jd \in DOMAIN Configs, resp \in GrantAnswers :
               /\ Good(resp) /\ Configs[jd].accessSecretName = s
               /\ secrets[s] = StringData(resp, jd)
    <3>1. DOMAIN secrets[s] = DOMAIN data
      BY Zenon, <1>0, <2>1, <2>3, GoodData
    <3> QED BY Zenon, <2>1, <3>1, MergeReplaces
  <2> QED BY Zenon, <1>0, <1>6, <2>2, <2>3 DEF SecretsOK
<1>8. /\ DOMAIN secrets' = SecretName
      /\ \A t \in SecretName : t # s => secrets'[t] = secrets[t]
      /\ Applied(o) => secrets'[s] = data
      /\ ~Applied(o) => secrets'[s] = secrets[s]
  BY Zenon, <1>0, <1>4, <1>6, <1>7 DEF SecretsOK
<1>9. SecretsOK'
  <2>1. SUFFICES ASSUME NEW t \in SecretName
                 PROVE  \/ secrets'[t] = NoVars
                        \/ \E jd \in DOMAIN Configs, resp \in GrantAnswers :
                             /\ Good(resp) /\ Configs[jd].accessSecretName = t
                             /\ secrets'[t] = StringData(resp, jd)
    BY Zenon, <1>3, <1>8 DEF SecretsOK
  <2>2. CASE t = s /\ Applied(o)
    <3>1. job.answer \in GrantAnswers
      BY Zenon, <1>0 DEF Good
    <3> QED BY Zenon, <1>0, <1>4, <1>5, <1>8, <2>2, <3>1
  <2>3. CASE ~(t = s /\ Applied(o))
    <3>1. secrets'[t] = secrets[t]
      BY Zenon, <1>8, <2>3
    <3> QED BY ZenonT(60), <1>0, <3>1 DEF SecretsOK
  <2> QED BY Zenon, <2>2, <2>3
<1>10. ASSUME o = "ok", job.error = "none",
              NEW todo, todo = job.todo \ {id}
       PROVE  Filled(job.answer, DOMAIN Configs \ todo)'
              \/ job'.answer # job.answer \/ job'.todo # todo
  <2>1. Applied(o)
    BY Zenon, <1>10 DEF Applied
  <2>2. Filled(job.answer, DOMAIN Configs \ job.todo)
    BY Zenon, <1>0, <1>10 DEF JobOK
  <2>3. ASSUME NEW jd \in DOMAIN Configs \ todo
        PROVE  secrets'[Configs[jd].accessSecretName] = StringData(job.answer, jd)
    <3>1. CASE jd = id
      BY Zenon, <1>4, <1>8, <2>1, <3>1
    <3>2. CASE jd # id
      <4>1. Configs[jd].accessSecretName \in SecretName /\ Configs[jd].accessSecretName # s
        BY Zenon, <1>0, <1>6, <3>2, ConfigsOK
      <4>2. jd \in DOMAIN Configs \ job.todo
        BY Zenon, <1>10, <3>2
      <4> QED BY Zenon, <1>8, <2>2, <4>1, <4>2 DEF Filled
    <3> QED BY Zenon, <3>1, <3>2
  <2> QED BY Zenon, <1>3, <2>3 DEF Filled
<1>11. GrantOK'
  BY Zenon, <1>0, <1>1 DEF GrantOK
<1>12. DOMAIN job' = JobFields /\ job'.pc # "idle" /\ JobOK'
  <2>1. CASE job.todo # {id}
    <3>1. /\ DOMAIN job' = JobFields /\ job'.pc = "fill" /\ job'.answer = job.answer
          /\ job'.todo = job.todo \ {id} /\ job'.error = e
      BY Zenon, <1>0, <1>4, <2>1 DEF JobFields
    <3>2. job'.error = "none" => o = "ok" /\ job.error = "none"
      BY SMTT(60), <1>4, <3>1
    <3>3. job'.error = "none" => Filled(job.answer, DOMAIN Configs \ job.todo)'
      BY Zenon, <1>10, <3>1, <3>2
    <3> QED BY Zenon, <1>0, <1>1, <1>3, <3>1, <3>3 DEF JobOK, Cleanup
  <2>2. CASE job.todo = {id} /\ e = "none"
    <3>1. /\ DOMAIN job' = JobFields /\ job'.pc = "setReady" /\ job'.answer = job.answer
          /\ job'.todo = job.todo \ {id} /\ job'.todo = {} /\ job'.error = job.error
      BY Zenon, <1>0, <1>4, <2>2 DEF JobFields
    <3>2. o = "ok" /\ job.error = "none"
      BY Zenon, <1>4, <2>2
    <3>3. Filled(job.answer, DOMAIN Configs \ job.todo)'
      BY Zenon, <1>10, <3>1, <3>2
    <3> QED BY Zenon, <1>0, <1>1, <1>3, <3>1, <3>2, <3>3 DEF JobOK, Cleanup
  <2>3. CASE job.todo = {id} /\ e # "none"
    <3>1. DOMAIN job' = JobFields /\ job'.pc = "report" /\ job'.error = e
      BY Zenon, <1>0, <1>4, <2>3, JobFieldsOK
    <3> QED BY Zenon, <2>3, <3>1 DEF JobOK, Cleanup
  <2> QED BY Zenon, <2>1, <2>2, <2>3
<1> QED BY Zenon, <1>3, <1>9, <1>11, <1>12 DEF AccessInv, SettledOK, Settled

\* The final status update: the access is ready, with the Secrets of one answer.
LEMMA SetReadyKeeps ==
    ASSUME AccessInv, SetReady
    PROVE  AccessInv'
<1>0. /\ AccessShape /\ SecretsOK /\ JobOK /\ GrantOK
      /\ DOMAIN access = AccessFields /\ DOMAIN job = JobFields
      /\ job.pc = "setReady" /\ ~access.cleanupFinished
      /\ Good(job.answer) /\ granted = GrantedNow /\ Filled(job.answer, DOMAIN Configs)
  <2>1. job.pc = "setReady" /\ AccessReconcile
    BY Zenon DEF SetReady, AccessReconcile
  <2>2. JobOK
    BY Zenon, <2>1, ThereIsAnAccess
  <2>3. job.error = "none" /\ job.todo = {} /\ Filled(job.answer, DOMAIN Configs \ job.todo)
    BY Zenon, <2>1, <2>2 DEF JobOK
  <2>4. Filled(job.answer, DOMAIN Configs)
    BY Zenon, <2>3 DEF Filled
  <2> QED BY Zenon, <2>1, <2>4, ThereIsAnAccess, AtWork DEF JobOK
<1>1. secrets' = secrets /\ granted' = granted
  BY Zenon DEF SetReady
<1>2. PICK w : w = [job EXCEPT !.accountID = job.answer.accountId, !.readyToUse = TRUE]
  BY Zenon
<1>3. PICK o : /\ access' = IF Applied(o)
                            THEN [access EXCEPT !.accountID = w.accountID,
                                                !.readyToUse = w.readyToUse, !.error = "none"]
                            ELSE access
               /\ job' = IF o = "ok" THEN JobIdle
                         ELSE [w EXCEPT !.pc = "report", !.answer = None, !.error = "retry",
                                        !.current = o = "failed"]
  BY Zenon, <1>2 DEF SetReady, WriteStatus
<1>4. RequestKept /\ access'.cleanupFinished = access.cleanupFinished
  BY Zenon, <1>0, <1>3 DEF RequestKept, AccessFields
<1>5. /\ AccessShape' /\ SecretsOK' /\ Configs' = Configs /\ GrantedNow' = GrantedNow
      /\ RevokeBucketList(access)' = RevokeBucketList(access)
      /\ \A resp : Good(resp) => Good(resp)'
  BY Zenon, <1>0, <1>1, <1>4, RequestStable, SecretsKept DEF Good
<1>6. GrantOK'
  BY Zenon, <1>0, <1>1, <1>4, <1>5 DEF GrantOK
<1>7. CASE o = "ok"
  <2>1. DOMAIN job' = JobFields /\ job'.pc = "idle"
    BY Zenon, <1>0, <1>3, <1>7, JobFieldsOK
  <2>2. SettledOK'
    BY Zenon, <1>0, <1>1, <1>5 DEF SettledOK, Good, Filled
  <2>3. JobOK'
    BY Zenon, <2>1 DEF JobOK, Cleanup
  <2> QED BY Zenon, <1>5, <1>6, <2>2, <2>3 DEF AccessInv
<1>8. CASE o # "ok"
  <2>1. DOMAIN job' = JobFields /\ job'.pc = "report" /\ job'.error = "retry"
    BY Zenon, <1>0, <1>2, <1>3, <1>8 DEF JobFields
  <2> QED BY Zenon, <1>0, <1>1, <1>4, <1>6, <2>1, UnsettledStep DEF Settled, Cleanup
<1> QED BY Zenon, <1>7, <1>8

\* The error report: a recorded error, or another reconcile, follows.
LEMMA ReportKeeps ==
    ASSUME AccessInv, Report
    PROVE  AccessInv'
<1>0. /\ AccessShape /\ SecretsOK /\ JobOK /\ GrantOK
      /\ DOMAIN access = AccessFields /\ DOMAIN job = JobFields
      /\ job.pc = "report" /\ job.error # "none"
  <2>1. job.pc = "report" /\ AccessReconcile
    BY Zenon DEF Report, AccessReconcile
  <2> QED BY Zenon, <2>1, ThereIsAnAccess DEF JobOK
<1>1. secrets' = secrets /\ granted' = granted /\ job' = JobIdle
  BY Zenon DEF Report
<1>2. PICK o : /\ WriteEnds(o, job.current)
               /\ access' = IF Applied(o)
                            THEN [access EXCEPT !.accountID = job.accountID,
                                                !.readyToUse = job.readyToUse,
                                                !.error = job.error]
                            ELSE access
               /\ queued' = (queued \/ Requeues(o, job.error))
  BY Zenon DEF Report
<1>3. RequestKept /\ access'.cleanupFinished = access.cleanupFinished
  BY Zenon, <1>0, <1>2 DEF RequestKept, AccessFields
<1>4. RevokeBucketList(access)' = RevokeBucketList(access)
  BY Zenon, <1>0, <1>3, RequestStable
<1>5. ~Settled'
  <2>1. CASE Applied(o)
    <3>1. access'.error = job.error
      BY Zenon, <1>0, <1>2, <2>1 DEF AccessFields
    <3> QED BY Zenon, <1>0, <3>1 DEF Settled
  <2>2. CASE ~Applied(o)
    <3>1. o # "ok"
      BY Zenon, <2>2 DEF Applied
    <3> QED BY Zenon, <1>2, <3>1 DEF Settled, Requeues
  <2> QED BY Zenon, <2>1, <2>2
<1>6. GrantOK'
  <2>1. CASE access.cleanupFinished
    <3>1. ~job.current
      BY Zenon, <1>0, <2>1 DEF GrantOK
    <3>2. o = "rejected"
      BY Zenon, <1>2, <3>1 DEF WriteEnds
    <3>3. access' = access
      BY Zenon, <1>2, <3>2 DEF Applied
    <3> QED BY Zenon, <1>0, <1>1, <3>3, JobFieldsOK DEF GrantOK
  <2>2. CASE ~access.cleanupFinished
    BY Zenon, <1>0, <1>1, <1>3, <1>4, <2>2 DEF GrantOK
  <2> QED BY Zenon, <2>1, <2>2
<1> QED BY Zenon, <1>0, <1>1, <1>3, <1>5, <1>6, JobFieldsOK, UnsettledStep DEF Cleanup

\* reconcileDelete marks the access as not ready.
LEMMA ClearStatusKeeps ==
    ASSUME AccessInv, ClearStatus
    PROVE  AccessInv'
<1>0. /\ AccessShape /\ SecretsOK /\ JobOK /\ GrantOK
      /\ DOMAIN access = AccessFields /\ DOMAIN job = JobFields
      /\ job.pc = "clearStatus" /\ ~access.cleanupFinished
      /\ access.deleting /\ job.accountID = access.accountID
  <2>1. job.pc = "clearStatus" /\ AccessReconcile
    BY Zenon DEF ClearStatus, AccessReconcile
  <2> QED BY Zenon, <2>1, ThereIsAnAccess, AtWork DEF JobOK, Cleanup
<1>1. secrets' = secrets /\ granted' = granted
  BY Zenon DEF ClearStatus
<1>2. PICK w : w = [job EXCEPT !.readyToUse = FALSE]
  BY Zenon
<1>3. PICK o : /\ access' = IF Applied(o)
                            THEN [access EXCEPT !.accountID = w.accountID,
                                                !.readyToUse = w.readyToUse, !.error = "none"]
                            ELSE access
               /\ job' = IF o = "ok" THEN [w EXCEPT !.pc = "deleteSecrets"]
                         ELSE [w EXCEPT !.pc = "report", !.answer = None, !.error = "retry",
                                        !.current = o = "failed"]
  BY Zenon, <1>2 DEF ClearStatus, WriteStatus
<1>4. /\ RequestKept /\ access'.cleanupFinished = access.cleanupFinished
      /\ access'.accountID = access.accountID /\ access'.deleting = access.deleting
  BY ZenonT(30), <1>0, <1>2, <1>3 DEF RequestKept, AccessFields, JobFields
<1>5. /\ AccessShape' /\ SecretsOK' /\ RevokeBucketList(access)' = RevokeBucketList(access)
  BY Zenon, <1>0, <1>1, <1>4, RequestStable, SecretsKept
<1>6. GrantOK'
  BY Zenon, <1>0, <1>1, <1>4, <1>5 DEF GrantOK
<1>7. /\ DOMAIN job' = JobFields /\ job'.accountID = job.accountID
      /\ \/ job'.pc = "deleteSecrets"
         \/ job'.pc = "report" /\ job'.error = "retry"
  BY Zenon, <1>0, <1>2, <1>3 DEF JobFields
<1>8. JobOK'
  BY Zenon, <1>0, <1>4, <1>7 DEF JobOK, Cleanup
<1> QED BY Zenon, <1>5, <1>6, <1>7, <1>8 DEF AccessInv, SettledOK, Settled

\* deleteOwnedAccessSecrets leaves no data.
LEMMA DeleteSecretsKeeps ==
    ASSUME AccessInv, DeleteSecrets
    PROVE  AccessInv'
<1>0. /\ AccessShape /\ SecretsOK /\ JobOK /\ GrantOK
      /\ DOMAIN access = AccessFields /\ DOMAIN job = JobFields
      /\ job.pc = "deleteSecrets" /\ ~access.cleanupFinished
      /\ access.deleting /\ job.accountID = access.accountID
  <2>1. job.pc = "deleteSecrets" /\ AccessReconcile
    BY Zenon DEF DeleteSecrets, AccessReconcile
  <2> QED BY Zenon, <2>1, ThereIsAnAccess, AtWork DEF JobOK, Cleanup
<1>1. access' = access /\ granted' = granted
  BY Zenon DEF DeleteSecrets
<1>2. RequestKept
  BY Zenon, <1>0, <1>1 DEF RequestKept
<1>3. AccessShape' /\ GrantOK'
  BY Zenon, <1>0, <1>1, <1>2, RequestStable DEF GrantOK
<1>4. SecretsOK'
  <2>1. CASE secrets' = [s \in SecretName |-> NoVars]
    BY Zenon, <2>1 DEF SecretsOK
  <2>2. CASE secrets' = secrets
    BY Zenon, <1>0, <1>2, <2>2, SecretsKept
  <2> QED BY Zenon, <2>1, <2>2 DEF DeleteSecrets
<1>5. \/ job' = [job EXCEPT !.pc = "finish"] /\ job.accountID = None
      \/ job' = [job EXCEPT !.pc = "revoke"]
      \/ \E e \in {"terminal", "retry"} : job' = FailJob(e)
  BY Zenon DEF DeleteSecrets
<1>6. /\ DOMAIN job' = JobFields
      /\ \/ job'.pc = "finish" /\ job'.accountID = job.accountID /\ job'.accountID = None
         \/ job'.pc = "revoke" /\ job'.accountID = job.accountID
         \/ job'.pc = "report" /\ job'.error # "none"
  BY ZenonT(30), <1>0, <1>5 DEF JobFields, FailJob
<1>7. JobOK'
  BY Zenon, <1>0, <1>1, <1>6 DEF JobOK, Cleanup
<1> QED BY Zenon, <1>3, <1>4, <1>6, <1>7 DEF AccessInv, SettledOK, Settled

\* DriverRevokeBucketAccess takes away all that was granted.
LEMMA RevokeKeeps ==
    ASSUME AccessInv, Revoke
    PROVE  AccessInv'
<1>0. /\ AccessShape /\ SecretsOK /\ JobOK /\ GrantOK
      /\ DOMAIN access = AccessFields /\ DOMAIN job = JobFields
      /\ job.pc = "revoke" /\ ~access.cleanupFinished
      /\ access.deleting /\ job.accountID = access.accountID
  <2>1. job.pc = "revoke" /\ AccessReconcile
    BY Zenon DEF Revoke, AccessReconcile
  <2> QED BY Zenon, <2>1, ThereIsAnAccess, AtWork DEF JobOK, Cleanup
<1>1. access' = access /\ secrets' = secrets
  BY Zenon DEF Revoke
<1>2. RequestKept
  BY Zenon, <1>0, <1>1 DEF RequestKept
<1>3. AccessShape' /\ SecretsOK'
  BY Zenon, <1>0, <1>1, <1>2, RequestStable, SecretsKept
<1>4. DOMAIN Revoked = {}
  BY Zenon, <1>0 DEF Revoked, GrantOK
<1>5. granted' \in {granted, Revoked}
  BY Zenon DEF Revoke
<1>6. GrantOK'
  BY Zenon, <1>0, <1>1, <1>4, <1>5 DEF GrantOK
<1>7. \/ job' = [job EXCEPT !.pc = "finish"] /\ granted' = Revoked
      \/ \E e \in {"terminal", "retry"} : job' = FailJob(e)
  <2>1. RpcErrors({}) \subseteq {"terminal", "retry"}
    BY Zenon DEF RpcErrors
  <2> QED BY Zenon, <2>1 DEF Revoke
<1>8. /\ DOMAIN job' = JobFields
      /\ \/ job'.pc = "finish" /\ job'.accountID = job.accountID /\ granted' = Revoked
         \/ job'.pc = "report" /\ job'.error # "none"
  BY ZenonT(30), <1>0, <1>7 DEF JobFields, FailJob
<1>9. JobOK'
  BY Zenon, <1>0, <1>1, <1>4, <1>8 DEF JobOK, Cleanup
<1> QED BY Zenon, <1>3, <1>6, <1>8, <1>9 DEF AccessInv, SettledOK, Settled

\* The cleanup-finished annotation hands the access back.
LEMMA FinishKeeps ==
    ASSUME AccessInv, Finish
    PROVE  AccessInv'
<1>0. /\ AccessShape /\ SecretsOK /\ JobOK /\ GrantOK
      /\ DOMAIN access = AccessFields /\ DOMAIN job = JobFields
      /\ job.pc = "finish" /\ ~access.cleanupFinished
      /\ access.deleting /\ job.accountID = access.accountID
      /\ job.accountID # None => DOMAIN granted = {}
  <2>1. job.pc = "finish" /\ AccessReconcile
    BY Zenon DEF Finish, AccessReconcile
  <2> QED BY Zenon, <2>1, ThereIsAnAccess, AtWork DEF JobOK, Cleanup
<1>1. secrets' = secrets /\ granted' = granted
  BY Zenon DEF Finish
<1>2. PICK o : /\ access' = IF Applied(o) THEN [access EXCEPT !.cleanupFinished = TRUE]
                            ELSE access
               /\ job' = IF o = "ok" THEN JobIdle
                         ELSE [FailJob("retry") EXCEPT !.current = o = "failed"]
  BY Zenon DEF Finish
<1>3. /\ RequestKept /\ access'.accountID = access.accountID
      /\ access'.deleting = access.deleting /\ access'.readyToUse = access.readyToUse
      /\ ~Applied(o) => access'.cleanupFinished = access.cleanupFinished
  BY ZenonT(30), <1>0, <1>2 DEF RequestKept, AccessFields
<1>4. /\ DOMAIN job' = JobFields
      /\ \/ o = "ok" /\ job'.pc = "idle"
         \/ o = "failed" /\ job'.pc = "report" /\ job'.error = "retry"
         \/ o \notin {"ok", "failed"} /\ job'.pc = "report" /\ job'.error = "retry"
            /\ ~job'.current
  BY ZenonT(30), <1>0, <1>2 DEF JobFields, FailJob, JobIdle
<1>5. o = "failed" => ~Applied(o)
  BY Zenon DEF Applied
<1>6. GrantOK'
  BY Zenon, <1>0, <1>1, <1>3, <1>4, <1>5, RequestStable DEF GrantOK
<1>7. ~Settled'
  BY Zenon, <1>0, <1>3 DEF Settled
<1>8. job'.pc \notin {"grant", "fill", "setReady"} \cup Cleanup
      /\ (job'.pc = "report" => job'.error # "none")
  BY Zenon, <1>4 DEF Cleanup
<1> QED BY Zenon, <1>0, <1>1, <1>3, <1>4, <1>6, <1>7, <1>8, UnsettledStep

\* One step of the reconcile of the access.
LEMMA AccessReconcileKeeps ==
    ASSUME AccessInv, Enqueue \/ DeleteAccess \/ AccessReconcile
    PROVE  AccessInv'
BY Zenon, EnqueueKeeps, DeleteAccessKeeps, AccessStartKeeps, GrantKeeps, FillKeeps,
   SetReadyKeeps, ReportKeeps, ClearStatusKeeps, DeleteSecretsKeeps, RevokeKeeps, FinishKeeps
   DEF AccessReconcile

\* Steps of others; a start of the manager queues the access, a crash ends its reconcile.
LEMMA OthersKeepAccess ==
    ASSUME AccessInv, access' = access, secrets' = secrets, granted' = granted,
           \/ job' = job /\ queued' = queued /\ (pc' = pc \/ pc' # "serving")
           \/ job' = job /\ queued' = (access # None)
           \/ job' = JobIdle /\ ~queued' /\ pc' # "serving"
    PROVE  AccessInv'
<1>1. CASE NoAccess
  BY Zenon, <1>1 DEF NoAccess, AccessInv
<1>2. CASE ~NoAccess
  <2>0. AccessShape /\ SecretsOK /\ JobOK /\ GrantOK /\ SettledOK
    BY Zenon, <1>2 DEF AccessInv
  <2>1. RequestKept
    BY Zenon, <2>0 DEF RequestKept, AccessShape
  <2>2. /\ AccessShape' /\ SecretsOK' /\ Configs' = Configs /\ GrantedNow' = GrantedNow
        /\ \A resp : Good(resp) => Good(resp)'
        /\ \A resp, ids : Filled(resp, ids) => Filled(resp, ids)'
    BY Zenon, <2>0, <2>1, RequestStable, SecretsKept DEF Good, Filled
  <2>3. CASE job' = job /\ (Settled' => Settled)
    <3>1. JobOK'
      BY Zenon, <2>0, <2>1, <2>3, JobKept DEF JobOK
    <3>2. GrantOK'
      BY Zenon, <2>0, <2>3 DEF GrantOK
    <3>3. SettledOK'
      BY Zenon, <2>0, <2>2, <2>3 DEF SettledOK
    <3> QED BY Zenon, <2>2, <3>1, <3>2, <3>3 DEF AccessInv
  <2>4. CASE job' = JobIdle /\ ~Settled'
    <3>1. DOMAIN job' = JobFields /\ job'.pc = "idle"
      BY Zenon, <2>0, <2>4, JobFieldsOK DEF JobOK
    <3>2. GrantOK'
      BY Zenon, <2>0, <3>1 DEF GrantOK
    <3> QED BY Zenon, <2>0, <2>1, <2>4, <3>1, <3>2, UnsettledStep DEF Cleanup
  <2>5. queued' = (access # None) => ~Settled'
    <3>1. SUFFICES ASSUME queued' = (access # None), access # None
                   PROVE  queued'
      BY Zenon DEF Settled
    <3> QED BY Zenon, <3>1
  <2>6. queued' = queued /\ job' = job /\ (pc' = pc \/ pc' # "serving") => (Settled' => Settled)
    BY SMTT(60) DEF Settled
  <2>7. pc' # "serving" => ~Settled'
    BY Zenon DEF Settled
  <2> QED BY Zenon, <2>3, <2>4, <2>5, <2>6, <2>7
<1> QED BY Zenon, <1>1, <1>2

\* At first nothing is granted, written or ready.
LEMMA InitOK ==
    ASSUME Init
    PROVE  AccessInv /\ BucketInv
<1>1. PICK w \in Worlds :
        /\ access = IF w.access = None THEN None ELSE NewAccess(w.access)
        /\ bucket = IF w.bucket = None THEN None ELSE NewBucket(w.bucket)
  BY Zenon DEF Init
<1>2. ASSUME w.access = None PROVE AccessInv
  BY Zenon, <1>1, <1>2 DEF Init, NoAccess, AccessInv
<1>3. ASSUME w.access # None PROVE AccessInv
  <2>1. PICK sub \in Submitted : access = NewAccess(sub)
    BY Zenon, <1>1, <1>3 DEF Submitted
  <2>2. /\ DOMAIN access = AccessFields /\ ~access.readyToUse /\ ~access.cleanupFinished
        /\ access.protocol = sub.protocol
        /\ access.authenticationType = sub.authenticationType
        /\ access.bucketClaims = sub.bucketClaims
        /\ access.accessedBuckets = compileAccessedBuckets(sub.bucketClaims, sub.idOf)
    BY Zenon, <2>1 DEF NewAccess, AccessFields
  <2>3. AccessShape
    BY Zenon, <2>2 DEF AccessShape
  <2>4. SecretsOK
    BY Zenon DEF Init, SecretsOK
  <2>5. DOMAIN job = JobFields /\ job.pc = "idle"
    BY Zenon DEF Init, JobIdle, JobFields
  <2>6. JobOK
    BY Zenon, <2>5 DEF JobOK, Cleanup
  <2>7. GrantOK
    BY Zenon, <2>2, NoVarsOK DEF Init, GrantOK
  <2>8. SettledOK
    BY Zenon, <2>2 DEF SettledOK, Settled
  <2> QED BY Zenon, <2>3, <2>4, <2>6, <2>7, <2>8 DEF AccessInv
<1>4. ASSUME w.bucket = None PROVE BucketInv
  BY Zenon, <1>1, <1>4 DEF Init, NoBucket, BucketInv
<1>5. ASSUME w.bucket # None PROVE BucketInv
  <2>1. bucket = NewBucket(w.bucket)
    BY Zenon, <1>1, <1>5
  <2>2. DOMAIN bucket = BucketFields /\ ~bucket.readyToUse
    BY Zenon, <2>1 DEF NewBucket, BucketFields
  <2>3. DOMAIN bucketJob = BucketJobFields /\ bucketJob.pc = "idle" /\ bucketJob.answer = None
        /\ bucketJob.error = "none"
    BY Zenon DEF Init, BucketJobIdle, BucketJobFields
  <2> QED BY Zenon, <2>2, <2>3 DEF BucketInv, Tells, BucketJobOK
<1> QED BY Zenon, <1>2, <1>3, <1>4, <1>5

\* Every step keeps what is known of the access and of the Bucket.
LEMMA NextOK ==
    ASSUME AccessInv, BucketInv, [Next]_vars
    PROVE  AccessInv' /\ BucketInv'
<1>1. CASE Enqueue \/ DeleteAccess \/ AccessReconcile
  BY Zenon, <1>1, AccessReconcileKeeps, ThereIsAnAccess, OthersKeepBucket
<1>2. CASE EnqueueBucket \/ BucketReconcile
  <2>1. UNCHANGED <<mainVars, accessVars>>
    BY Zenon, <1>2 DEF EnqueueBucket, BucketReconcile, BucketStart, BucketProvision,
       BucketSetStatus, BucketReport, unchangedByBucket
  <2> QED BY Zenon, <1>2, <2>1, BucketReconcileKeeps, OthersKeepAccess DEF mainVars, accessVars
<1>3. CASE StartManager
  BY Zenon, <1>3, OthersKeepAccess, OthersKeepBucket DEF StartManager
<1>4. CASE Crash
  BY Zenon, <1>4, OthersKeepAccess, OthersKeepBucket DEF Crash
<1>5. CASE Start \/ Connect \/ Wait \/ Look \/ GetInfo \/ Expire \/ Restart \/ Connection
             \/ DriverStops \/ DriverStarts \/ UNCHANGED vars
  <2>1. UNCHANGED <<accessVars, bucketVars>> /\ (pc' = pc \/ pc' # "serving")
    BY Zenon, <1>5 DEF Start, Connect, Wait, Look, GetInfo, Expire, Restart, Connection,
       DriverStops, DriverStarts, vars, mainVars
  <2> QED BY Zenon, <2>1, OthersKeepAccess, OthersKeepBucket DEF accessVars, bucketVars
<1> QED BY Zenon, <1>1, <1>2, <1>3, <1>4, <1>5 DEF Next, Main
-----------------------------------------------------------------------------
(***************************************************************************)
(* Types.                                                                  *)
(***************************************************************************)
MainPc == {"start", "connect", "wait", "look", "getInfo", "manager", "serving", "exited"}
JobPc == {"idle", "grant", "fill", "setReady", "report", "clearStatus", "deleteSecrets",
          "revoke", "finish"}

\* The process has asked its driver before it serves.
MainOK ==
    /\ pc \in MainPc /\ seen \in Connectivity /\ expired \in BOOLEAN
    /\ info \in InfoAnswers \cup {None}
    /\ pc \in {"manager", "serving"} => info \in InfoAnswers /\ DriverInfoOK(info)
ConnOK == conn \in Connectivity /\ driverUp \in BOOLEAN /\ stops \in 0 .. MaxStops
CountersOK == faults \in 0 .. MaxFaults /\ restarts \in 0 .. MaxRestarts

JobType ==
    /\ DOMAIN secrets = SecretName /\ queued \in BOOLEAN
    /\ DOMAIN job = JobFields /\ job.pc \in JobPc /\ job.error \in Error
    /\ job.pc \in {"fill", "setReady"} => job.answer \in GrantAnswers
BucketJobType ==
    /\ bucketQueued \in BOOLEAN
    /\ DOMAIN bucketJob = BucketJobFields
    /\ bucketJob.pc \in {"idle", "provision", "setStatus", "report"}
    /\ bucketJob.pc = "setStatus" => bucketJob.answer \in BucketAnswers
    /\ bucketJob.error \in Error

TInv == MainOK /\ ConnOK /\ CountersOK /\ JobType /\ BucketJobType

\* The driver's protocols, as TypeOK has them.
ProtocolsOK(protos) ==
    /\ DOMAIN protos # {}
    /\ \A i, j \in DOMAIN protos :
         /\ protos[i] # "UNKNOWN"
         /\ protos[i] = protos[j] => i = j

\* A driver that was accepted has a protocol, none unknown and each once
\* (validateAndParseProtocols).
LEMMA AcceptedProtocols ==
    ASSUME NEW resp \in InfoAnswers, DriverInfoOK(resp)
    PROVE  ProtocolsOK(resp.supportedProtocols)
<1>1. PICK protos : protos = resp.supportedProtocols
  BY Zenon
<1>2. Len(protos) \in Nat /\ DOMAIN protos = 1 .. Len(protos)
  BY Zenon, <1>1, DriverAssumption DEF IsList
<1>3. /\ protos # <<>>
      /\ \A i \in DOMAIN protos : /\ protos[i] # "UNKNOWN"
                                  /\ \A j \in 1 .. (i - 1) : protos[j] # protos[i]
  BY Zenon, <1>1 DEF DriverInfoOK, validateAndParseProtocols
<1>4. \A i, j \in DOMAIN protos : protos[i] = protos[j] => i = j
  <2> SUFFICES ASSUME NEW i \in DOMAIN protos, NEW j \in DOMAIN protos, protos[i] = protos[j]
               PROVE  i = j
    BY Zenon
  <2>1. i \in Nat /\ j \in Nat /\ i >= 1 /\ j >= 1
    BY SMTT(60), <1>2
  <2>2. ~(i < j) /\ ~(j < i)
    BY SMTT(60), <1>3, <2>1
  <2> QED BY SMTT(60), <2>1, <2>2
<1>5. DOMAIN protos # {}
  BY SMTT(60), <1>3
<1> QED BY Zenon, <1>1, <1>3, <1>4, <1>5 DEF ProtocolsOK

\* A fault is counted.
LEMMA FaultOK ==
    ASSUME CountersOK, restarts' = restarts, Fault \/ faults' = faults
    PROVE  CountersOK'
BY SMTT(60), DriverAssumption DEF CountersOK, Fault

\* So is the fault of a write.
LEMMA WriteEndsOK ==
    ASSUME NEW o, NEW current, WriteEnds(o, current)
    PROVE  Fault \/ faults' = faults
BY Zenon DEF WriteEnds

\* The errors of the driver's answers are errors.
LEMMA RpcErrorsOK ==
    ASSUME NEW codes, NEW e \in RpcErrors(codes)
    PROVE  e \in Error
BY Zenon DEF RpcErrors, Error, TerminalError

\* The steps of main(), of gRPC and of the driver.
LEMMA ProcessTypes ==
    ASSUME TInv, Main \/ Expire \/ Crash \/ Restart \/ Connection \/ DriverStops
                 \/ DriverStarts
    PROVE  TInv'
<1> USE DEF TInv
<1>0. DOMAIN JobIdle = JobFields /\ JobIdle.pc = "idle" /\ JobIdle.error = "none"
      /\ DOMAIN BucketJobIdle = BucketJobFields /\ BucketJobIdle.pc = "idle"
      /\ BucketJobIdle.error = "none" /\ "none" \in Error
  BY Zenon DEF JobIdle, JobFields, BucketJobIdle, BucketJobFields, Error
<1>1. MainOK'
  <2>1. CASE Start
    BY Zenon, <2>1 DEF Start, MainOK, MainPc
  <2>2. CASE Connect
    BY Zenon, <2>2 DEF Connect, MainOK, MainPc, Connectivity
  <2>3. CASE Wait
    BY Zenon, <2>3 DEF Wait, MainOK, MainPc
  <2>4. CASE Look
    BY Zenon, <2>4 DEF Look, MainOK, MainPc, ConnOK
  <2>5. CASE GetInfo
    <3>1. \/ pc' = "exited" /\ info' = info
          \/ pc' = "manager" /\ info' \in InfoAnswers /\ DriverInfoOK(info')
      BY Zenon, <2>5 DEF GetInfo
    <3>2. (DriverInfoOK(info'))  <=> DriverInfoOK(info)'
      BY Zenon
    <3> QED BY Zenon, <2>5, <3>1, <3>2 DEF GetInfo, MainOK, MainPc
  <2>6. CASE StartManager
    <3>1. /\ pc' \in {"serving", "exited"} /\ info' = info /\ seen' = "Idle"
          /\ expired' = FALSE /\ pc = "manager"
      BY Zenon, <2>6 DEF StartManager
    <3> QED BY Zenon, <3>1 DEF MainOK, MainPc, Connectivity
  <2>7. CASE Expire \/ Crash \/ Restart
    BY Zenon, <2>7 DEF Expire, Crash, Restart, MainOK, MainPc, Connectivity
  <2>8. CASE Connection \/ DriverStops \/ DriverStarts
    BY Zenon, <2>8 DEF Connection, DriverStops, DriverStarts, mainVars, MainOK
  <2> QED BY Zenon, <2>1, <2>2, <2>3, <2>4, <2>5, <2>6, <2>7, <2>8 DEF Main
<1>2. ConnOK'
  <2>1. CASE UNCHANGED driverVars
    BY Zenon, <2>1 DEF driverVars, ConnOK
  <2>2. CASE Connect \/ Restart
    BY Zenon, <2>2 DEF Connect, Restart, ConnOK, Connectivity
  <2>3. CASE Connection
    BY Zenon, <2>3 DEF Connection, SetConn, ConnOK, Connectivity
  <2>4. CASE DriverStops
    <3>1. MaxStops \in Nat
      BY Zenon, DriverAssumption
    <3>2. stops < MaxStops /\ stops' = stops + 1 /\ driverUp' = FALSE
          /\ (conn' = conn \/ conn' = "Idle")
      BY Zenon, <2>4 DEF DriverStops
    <3>3. stops' \in 0 .. MaxStops
      BY SMTT(60), <3>1, <3>2 DEF ConnOK
    <3>4. conn' \in Connectivity /\ driverUp' \in BOOLEAN
      BY Zenon, <3>2 DEF ConnOK, Connectivity
    <3> QED BY Zenon, <3>3, <3>4 DEF ConnOK
  <2>5. CASE DriverStarts
    BY Zenon, <2>5 DEF DriverStarts, ConnOK
  <2> QED BY Zenon, <2>1, <2>2, <2>3, <2>4, <2>5 DEF Main, Start, Wait, Look, GetInfo,
        StartManager, Expire, Crash
<1>3. CountersOK'
  <2>1. CASE Restart
    BY SMTT(60), <2>1, DriverAssumption DEF Restart, CountersOK
  <2>2. CASE restarts' = restarts /\ (Fault \/ faults' = faults)
    BY Zenon, <2>2, FaultOK
  <2> QED BY Zenon, <2>1, <2>2 DEF Main, Start, Connect, Wait, Look, GetInfo, StartManager,
        Expire, Crash, Connection, DriverStops, DriverStarts
<1>4. JobType'
  <2>1. CASE UNCHANGED accessVars
    BY Zenon, <2>1 DEF accessVars, JobType
  <2>2. CASE StartManager
    <3>1. job' = job /\ secrets' = secrets /\ queued' \in BOOLEAN
      BY Zenon, <2>2 DEF StartManager, JobType
    <3> QED BY Zenon, <3>1 DEF JobType
  <2>3. CASE Crash
    <3>1. job' = JobIdle /\ secrets' = secrets /\ queued' \in BOOLEAN
      BY Zenon, <2>3 DEF Crash
    <3>2. "idle" \in JobPc
      BY Zenon DEF JobPc
    <3> QED BY Zenon, <1>0, <3>1, <3>2 DEF JobType
  <2> QED BY Zenon, <2>1, <2>2, <2>3 DEF Main, Start, Connect, Wait, Look, GetInfo, Expire,
        Restart, Connection, DriverStops, DriverStarts
<1>5. BucketJobType'
  <2>1. CASE UNCHANGED bucketVars
    BY Zenon, <2>1 DEF bucketVars, BucketJobType
  <2>2. CASE StartManager
    <3>1. bucketJob' = bucketJob /\ bucketQueued' \in BOOLEAN
      BY Zenon, <2>2 DEF StartManager, BucketJobType
    <3> QED BY Zenon, <3>1 DEF BucketJobType
  <2>3. CASE Crash
    <3>1. bucketJob' = BucketJobIdle /\ bucketQueued' \in BOOLEAN
      BY Zenon, <2>3 DEF Crash
    <3> QED BY Zenon, <1>0, <3>1 DEF BucketJobType
  <2> QED BY Zenon, <2>1, <2>2, <2>3 DEF Main, Start, Connect, Wait, Look, GetInfo, Expire,
        Restart, Connection, DriverStops, DriverStarts
<1> QED BY Zenon, <1>1, <1>2, <1>3, <1>4, <1>5

\* The steps of the reconcile of the access.
LEMMA AccessTypes ==
    ASSUME TInv, Enqueue \/ DeleteAccess \/ AccessReconcile
    PROVE  TInv'
<1> USE DEF TInv
<1>0. /\ DOMAIN JobIdle = JobFields /\ JobIdle.pc = "idle" /\ JobIdle.error = "none"
      /\ {"none", "retry", "terminal"} \subseteq Error
      /\ \A e : DOMAIN FailJob(e) = JobFields /\ FailJob(e).pc = "report" /\ FailJob(e).error = e
      /\ {"idle", "report"} \subseteq JobPc
      /\ DOMAIN job = JobFields
  BY Zenon DEF JobIdle, JobFields, FailJob, Error, TerminalError, JobPc, JobType
<1>1. MainOK' /\ ConnOK' /\ BucketJobType'
  <2>1. UNCHANGED <<mainVars, driverVars, bucketVars, restarts>>
    BY Zenon DEF Enqueue, DeleteAccess, AccessReconcile, AccessStart, Grant, Fill, SetReady,
       Report, ClearStatus, DeleteSecrets, Revoke, Finish, unchangedByAccess
  <2>2. MainOK'
    BY Zenon, <2>1 DEF mainVars, MainOK
  <2> QED BY Zenon, <2>1, <2>2 DEF driverVars, bucketVars, ConnOK, BucketJobType
<1>2. CountersOK'
  <2>1. restarts' = restarts
    BY Zenon DEF Enqueue, DeleteAccess, AccessReconcile, AccessStart, Grant, Fill, SetReady,
       Report, ClearStatus, DeleteSecrets, Revoke, Finish, unchangedByAccess
  <2>2. Fault \/ faults' = faults
    BY Zenon, WriteEndsOK DEF Enqueue, DeleteAccess, AccessReconcile, AccessStart, Grant,
       Fill, SetReady, Report, ClearStatus, DeleteSecrets, Revoke, Finish, WriteStatus
  <2> QED BY Zenon, <2>1, <2>2, FaultOK
<1>3. JobType'
  <2>1. CASE Enqueue
    <3>1. queued' \in BOOLEAN /\ job' = job /\ secrets' = secrets
      BY Zenon, <2>1 DEF Enqueue
    <3> QED BY Zenon, <3>1 DEF JobType
  <2>2. CASE DeleteAccess
    <3>1. /\ DOMAIN job' = JobFields /\ job'.pc = job.pc /\ job'.error = job.error
          /\ job'.answer = job.answer /\ secrets' = secrets /\ queued' = queued
      BY Zenon, <1>0, <2>2 DEF DeleteAccess, JobFields
    <3> QED BY Zenon, <3>1 DEF JobType
  <2>3. CASE AccessStart
    <3>1. PICK w : w = [JobIdle EXCEPT !.pc = "grant", !.current = TRUE,
                          !.accountID = access.accountID, !.readyToUse = access.readyToUse]
      BY Zenon
    <3>2. \/ job' = JobIdle \/ job' = w \/ job' = [w EXCEPT !.pc = "clearStatus"]
          \/ job' = [w EXCEPT !.pc = "report", !.error = "terminal"]
      BY Zenon, <2>3, <3>1 DEF AccessStart
    <3>3. /\ DOMAIN job' = JobFields /\ job'.pc \in {"idle", "grant", "clearStatus", "report"}
          /\ job'.error \in {"none", "terminal"}
      <4>1. DOMAIN w = JobFields /\ w.pc = "grant" /\ w.error = "none"
        BY Zenon, <3>1 DEF JobIdle, JobFields
      <4> QED BY Zenon, <1>0, <3>2, <4>1 DEF JobFields
    <3>4. queued' \in BOOLEAN /\ secrets' = secrets
      BY Zenon, <2>3 DEF AccessStart
    <3> QED BY Zenon, <1>0, <3>3, <3>4 DEF JobType, JobPc
  <2>4. CASE Grant
    <3>1. queued' = queued /\ secrets' = secrets
      BY Zenon, <2>4 DEF Grant
    <3>2. \/ \E e \in Error : job' = FailJob(e)
          \/ \E resp \in GrantAnswers :
               job' = [job EXCEPT !.pc = "fill", !.answer = resp,
                                  !.todo = DOMAIN BucketConfigs(access)]
      BY ZenonT(30), <1>0, <2>4, RpcErrorsOK DEF Grant
    <3>3. CASE \E e \in Error : job' = FailJob(e)
      BY Zenon, <1>0, <3>1, <3>3 DEF JobType
    <3>4. CASE \E resp \in GrantAnswers :
                 job' = [job EXCEPT !.pc = "fill", !.answer = resp,
                                    !.todo = DOMAIN BucketConfigs(access)]
      <4>1. /\ DOMAIN job' = JobFields /\ job'.pc = "fill" /\ job'.error = job.error
            /\ job'.answer \in GrantAnswers
        BY Zenon, <1>0, <3>4 DEF JobFields
      <4> QED BY Zenon, <3>1, <4>1 DEF JobType, JobPc
    <3> QED BY Zenon, <3>2, <3>3, <3>4
  <2>5. CASE Fill
    <3>1. queued' = queued /\ job.pc = "fill" /\ job.answer \in GrantAnswers
      BY Zenon, <2>5 DEF Fill, JobType
    <3>2. PICK id, o : LET s == BucketConfigs(access)[id].accessSecretName
             e == IF o = "ok" THEN job.error ELSE "retry"
         IN  /\ secrets' = IF Applied(o)
                           THEN [secrets EXCEPT ![s] =
                                   MergeApiInfo(StringData(job.answer, id), @)]
                           ELSE secrets
             /\ job' = IF job.todo # {id}
                       THEN [job EXCEPT !.todo = @ \ {id}, !.error = e]
                       ELSE IF e = "none" THEN [job EXCEPT !.pc = "setReady", !.todo = {}]
                       ELSE FailJob(e)
      BY Zenon, <2>5 DEF Fill
    <3>3. DOMAIN secrets' = SecretName
      BY Zenon, <3>2 DEF JobType
    <3>4. PICK e \in Error :
            job' = IF job.todo # {id}
                   THEN [job EXCEPT !.todo = @ \ {id}, !.error = e]
                   ELSE IF e = "none" THEN [job EXCEPT !.pc = "setReady", !.todo = {}]
                   ELSE FailJob(e)
      BY Zenon, <1>0, <3>2 DEF JobType
    <3>5. DOMAIN job' = JobFields /\ job'.error \in Error
          /\ (job'.pc # "report" => job'.pc \in {"fill", "setReady"} /\ job'.answer = job.answer)
      <4>1. PICK rest : rest = job.todo \ {id}
        BY Zenon
      <4>2. \/ job' = [job EXCEPT !.todo = rest, !.error = e]
            \/ job' = [job EXCEPT !.pc = "setReady", !.todo = {}]
            \/ job' = FailJob(e)
        BY Zenon, <3>4, <4>1
      <4>3. CASE job' = FailJob(e)
        <5>1. job'.pc = "report" /\ job'.error = e /\ DOMAIN job' = JobFields
          BY Zenon, <4>3 DEF FailJob, JobFields, JobType
        <5> QED BY Zenon, <3>4, <5>1
      <4>4. CASE job' = [job EXCEPT !.todo = rest, !.error = e]
        <5>1. /\ DOMAIN job' = JobFields /\ job'.error = e
              /\ job'.pc = job.pc /\ job'.answer = job.answer
          BY Zenon, <1>0, <4>4 DEF JobFields
        <5> QED BY Zenon, <3>1, <3>4, <5>1
      <4>5. CASE job' = [job EXCEPT !.pc = "setReady", !.todo = {}]
        <5>1. /\ DOMAIN job' = JobFields /\ job'.error = job.error
              /\ job'.pc = "setReady" /\ job'.answer = job.answer
          BY Zenon, <1>0, <4>5 DEF JobFields
        <5> QED BY Zenon, <5>1 DEF JobType
      <4> QED BY Zenon, <4>2, <4>3, <4>4, <4>5
    <3> QED BY Zenon, <3>1, <3>3, <3>5 DEF JobType, JobPc
  <2>6. CASE SetReady \/ ClearStatus
    <3>1. queued' = queued /\ secrets' = secrets
      BY Zenon, <2>6 DEF SetReady, ClearStatus
    <3>2. PICK w, next : /\ WriteStatus(w, next)
                         /\ \/ /\ w = [job EXCEPT !.accountID = job.answer.accountId,
                                                  !.readyToUse = TRUE]
                               /\ next = JobIdle
                            \/ /\ w = [job EXCEPT !.readyToUse = FALSE]
                               /\ next = [w EXCEPT !.pc = "deleteSecrets"]
      BY Zenon, <2>6 DEF SetReady, ClearStatus
    <3>3. PICK o : job' = IF o = "ok" THEN next
                          ELSE [w EXCEPT !.pc = "report", !.answer = None, !.error = "retry",
                                         !.current = o = "failed"]
      BY Zenon, <3>2 DEF WriteStatus
    <3>4. DOMAIN w = JobFields /\ w.error = job.error
      BY Zenon, <1>0, <3>2 DEF JobFields
    <3>5. DOMAIN job' = JobFields /\ job'.error \in Error
          /\ job'.pc \in {"idle", "deleteSecrets", "report"}
      BY SMTT(60), <1>0, <3>2, <3>3, <3>4 DEF JobFields, JobType
    <3> QED BY Zenon, <3>1, <3>5 DEF JobType, JobPc
  <2>7. CASE Report
    <3>1. job' = JobIdle /\ secrets' = secrets /\ queued' \in BOOLEAN
      BY Zenon, <2>7 DEF Report
    <3> QED BY Zenon, <1>0, <3>1 DEF JobType
  <2>8. CASE DeleteSecrets
    <3>1. queued' = queued /\ DOMAIN secrets' = SecretName
      BY Zenon, <2>8 DEF DeleteSecrets, JobType
    <3>2. \/ job' = [job EXCEPT !.pc = "finish"] \/ job' = [job EXCEPT !.pc = "revoke"]
          \/ job' = FailJob("terminal") \/ job' = FailJob("retry")
      BY Zenon, <2>8 DEF DeleteSecrets
    <3>3. DOMAIN job' = JobFields /\ job'.error \in Error
          /\ job'.pc \in {"finish", "revoke", "report"}
      BY ZenonT(60), <1>0, <3>2 DEF JobFields, JobType
    <3> QED BY Zenon, <3>1, <3>3 DEF JobType, JobPc
  <2>9. CASE Revoke
    <3>1. queued' = queued /\ secrets' = secrets
      BY Zenon, <2>9 DEF Revoke
    <3>2. job' = [job EXCEPT !.pc = "finish"] \/ \E e \in Error : job' = FailJob(e)
      BY ZenonT(30), <1>0, <2>9, RpcErrorsOK DEF Revoke
    <3>3. DOMAIN job' = JobFields /\ job'.error \in Error /\ job'.pc \in {"finish", "report"}
      BY ZenonT(60), <1>0, <3>2 DEF JobFields, JobType
    <3> QED BY Zenon, <3>1, <3>3 DEF JobType, JobPc
  <2>10. CASE Finish
    <3>1. queued' = queued /\ secrets' = secrets
      BY Zenon, <2>10 DEF Finish
    <3>2. PICK o : job' = IF o = "ok" THEN JobIdle
                          ELSE [FailJob("retry") EXCEPT !.current = o = "failed"]
      BY Zenon, <2>10 DEF Finish
    <3>3. DOMAIN job' = JobFields /\ job'.error \in Error /\ job'.pc \in {"idle", "report"}
      BY Zenon, <1>0, <3>2 DEF JobFields
    <3> QED BY Zenon, <3>1, <3>3 DEF JobType, JobPc
  <2> QED BY Zenon, <2>1, <2>2, <2>3, <2>4, <2>5, <2>6, <2>7, <2>8, <2>9, <2>10
        DEF AccessReconcile
<1> QED BY Zenon, <1>1, <1>2, <1>3

\* The steps of the reconcile of the Bucket.
LEMMA BucketTypes ==
    ASSUME TInv, EnqueueBucket \/ BucketReconcile
    PROVE  TInv'
<1> USE DEF TInv
<1>0. /\ DOMAIN BucketJobIdle = BucketJobFields /\ BucketJobIdle.pc = "idle"
      /\ BucketJobIdle.error = "none" /\ {"none", "retry", "terminal"} \subseteq Error
      /\ \A e : /\ DOMAIN FailBucketJob(e) = BucketJobFields
                /\ FailBucketJob(e).pc = "report" /\ FailBucketJob(e).error = e
      /\ DOMAIN bucketJob = BucketJobFields
  BY Zenon DEF BucketJobIdle, BucketJobFields, FailBucketJob, Error, TerminalError, BucketJobType
<1>1. MainOK' /\ ConnOK' /\ JobType'
  <2>1. UNCHANGED <<mainVars, driverVars, accessVars, restarts>>
    BY Zenon DEF EnqueueBucket, BucketReconcile, BucketStart, BucketProvision,
       BucketSetStatus, BucketReport, unchangedByBucket
  <2>2. MainOK'
    BY Zenon, <2>1 DEF mainVars, MainOK
  <2> QED BY Zenon, <2>1, <2>2 DEF driverVars, accessVars, ConnOK, JobType
<1>2. CountersOK'
  <2>1. restarts' = restarts
    BY Zenon DEF EnqueueBucket, BucketReconcile, BucketStart, BucketProvision,
       BucketSetStatus, BucketReport, unchangedByBucket
  <2>2. Fault \/ faults' = faults
    BY Zenon, WriteEndsOK DEF EnqueueBucket, BucketReconcile, BucketStart, BucketProvision,
       BucketSetStatus, BucketReport
  <2> QED BY Zenon, <2>1, <2>2, FaultOK
<1>3. BucketJobType'
  <2>1. CASE EnqueueBucket
    <3>1. bucketQueued' \in BOOLEAN /\ bucketJob' = bucketJob
      BY Zenon, <2>1 DEF EnqueueBucket
    <3> QED BY Zenon, <3>1 DEF BucketJobType
  <2>2. CASE BucketStart
    <3>1. bucketQueued' \in BOOLEAN
      BY Zenon, <2>2 DEF BucketStart
    <3>2. \/ bucketJob' = [BucketJobIdle EXCEPT !.pc = "provision"]
          \/ bucketJob' = FailBucketJob("terminal")
      BY Zenon, <2>2 DEF BucketStart
    <3>3. DOMAIN bucketJob' = BucketJobFields /\ bucketJob'.pc \in {"provision", "report"}
          /\ bucketJob'.error \in Error
      BY ZenonT(60), <1>0, <3>2 DEF BucketJobFields
    <3> QED BY Zenon, <3>1, <3>3 DEF BucketJobType
  <2>3. CASE BucketProvision
    <3>1. bucketQueued' = bucketQueued
      BY Zenon, <2>3 DEF BucketProvision
    <3>2. \/ \E e \in Error : bucketJob' = FailBucketJob(e)
          \/ \E resp \in BucketAnswers :
               bucketJob' = [bucketJob EXCEPT !.pc = "setStatus", !.answer = resp]
      BY ZenonT(30), <1>0, <2>3, RpcErrorsOK DEF BucketProvision
    <3>3. CASE \E e \in Error : bucketJob' = FailBucketJob(e)
      BY Zenon, <1>0, <3>1, <3>3 DEF BucketJobType
    <3>4. CASE \E resp \in BucketAnswers :
                 bucketJob' = [bucketJob EXCEPT !.pc = "setStatus", !.answer = resp]
      <4>1. /\ DOMAIN bucketJob' = BucketJobFields /\ bucketJob'.pc = "setStatus"
            /\ bucketJob'.error = bucketJob.error /\ bucketJob'.answer \in BucketAnswers
        BY Zenon, <1>0, <3>4 DEF BucketJobFields
      <4> QED BY Zenon, <3>1, <4>1 DEF BucketJobType
    <3> QED BY Zenon, <3>2, <3>3, <3>4
  <2>4. CASE BucketSetStatus
    <3>1. bucketQueued' = bucketQueued
      BY Zenon, <2>4 DEF BucketSetStatus
    <3>2. PICK o : bucketJob' = IF o = "ok" THEN BucketJobIdle
                                ELSE [bucketJob EXCEPT !.pc = "report", !.error = "retry",
                                                       !.current = o = "failed"]
      BY Zenon, <2>4 DEF BucketSetStatus
    <3>3. DOMAIN bucketJob' = BucketJobFields /\ bucketJob'.pc \in {"idle", "report"}
          /\ bucketJob'.error \in Error
      BY Zenon, <1>0, <3>2 DEF BucketJobFields
    <3> QED BY Zenon, <3>1, <3>3 DEF BucketJobType
  <2>5. CASE BucketReport
    <3>1. bucketQueued' \in BOOLEAN /\ bucketJob' = BucketJobIdle
      BY Zenon, <2>5 DEF BucketReport
    <3> QED BY Zenon, <1>0, <3>1 DEF BucketJobType
  <2> QED BY Zenon, <2>1, <2>2, <2>3, <2>4, <2>5 DEF BucketReconcile
<1> QED BY Zenon, <1>1, <1>2, <1>3

\* At first every variable is of its kind.
LEMMA InitTypes ==
    ASSUME Init
    PROVE  TInv
<1>1. MainOK
  BY Zenon DEF Init, MainOK, MainPc, Connectivity
<1>2. ConnOK /\ CountersOK
  <2>1. /\ conn = "Idle" /\ driverUp \in BOOLEAN /\ stops = 0
        /\ faults = 0 /\ restarts = 0
    BY Zenon DEF Init
  <2>2. 0 \in 0 .. MaxStops /\ 0 \in 0 .. MaxFaults /\ 0 \in 0 .. MaxRestarts
    <3>1. MaxFaults \in Nat /\ MaxRestarts \in Nat /\ MaxStops \in Nat
      BY Zenon, DriverAssumption
    <3> QED BY SMTT(60), <3>1
  <2> QED BY Zenon, <2>1, <2>2 DEF ConnOK, CountersOK, Connectivity
<1>3. JobType
  BY Zenon DEF Init, JobType, JobIdle, JobFields, JobPc, Error
<1>4. BucketJobType
  BY Zenon DEF Init, BucketJobType, BucketJobIdle, BucketJobFields, Error
<1> QED BY Zenon, <1>1, <1>2, <1>3, <1>4 DEF TInv

-----------------------------------------------------------------------------
(***************************************************************************)
(* The theorems.                                                           *)
(***************************************************************************)
\* The invariants hold in every reachable state.
LEMMA InvariantHolds == Spec => [](AccessInv /\ BucketInv)
<1>1. Init => AccessInv /\ BucketInv
  BY Zenon, InitOK
<1>2. (AccessInv /\ BucketInv) /\ [Next]_vars => (AccessInv /\ BucketInv)'
  BY Zenon, NextOK
<1> QED BY <1>1, <1>2, PTL DEF Spec

\* A filled Secret never mixes answers or buckets, whatever the driver answers,
\* whichever writes fail and whenever the Sidecar restarts
\* (updateSecretsWithGrantedInfo, MergeApiInfoIntoStringMap).
THEOREM SecretsStayWhole == Spec => []SecretsAreWhole
<1>1. ASSUME AccessInv PROVE SecretsAreWhole
  <2>1. SUFFICES ASSUME access # None, NEW i \in DOMAIN access.bucketClaims,
                        NEW s, s = access.bucketClaims[i].accessSecretName,
                        NEW id, id = bucketIdOf(access, access.bucketClaims[i]),
                        Decoded(secrets[s], access.protocol).vars # {}
                 PROVE  /\ i = Last(refsTo(access, id))
                        /\ \E resp \in AnswersWith[access.protocol] :
                             /\ IsSaidBy(Decoded(secrets[s], access.protocol),
                                         access.protocol, resp, id)
                             /\ Accepted(resp)
    BY Zenon DEF SecretsAreWhole
  <2>2. AccessShape /\ SecretsOK
    BY Zenon, <1>1, <2>1 DEF AccessInv, NoAccess
  <2>3. s \in SecretName
    BY Zenon, <2>1, <2>2, ReferencedSecret
  <2>4. secrets[s] # NoVars
    <3>1. DOMAIN secrets[s] # {}
      BY Zenon, <2>1 DEF Decoded
    <3> QED BY Zenon, <3>1, NoVarsOK
  <2>5. PICK jd \in DOMAIN Configs, resp \in GrantAnswers :
          /\ Good(resp) /\ Configs[jd].accessSecretName = s
          /\ secrets[s] = StringData(resp, jd)
    BY Zenon, <2>2, <2>3, <2>4 DEF SecretsOK
  <2>6. i = Last(refsTo(access, jd)) /\ jd = id
    BY Zenon, <2>1, <2>2, <2>5, ConfigsOK
  <2>7. /\ access.protocol \in ApiProtocols /\ resp \in AnswersWith[access.protocol]
        /\ IsSaidBy(Decoded(secrets[s], access.protocol), access.protocol, resp, id)
    BY Zenon, <2>2, <2>5, <2>6, GoodData
  <2> QED BY Zenon, <2>5, <2>6, <2>7 DEF Good
<1> QED BY <1>1, InvariantHolds, PTL

\* One accepted answer accounts for all Secrets of a ready access without error for
\* which nothing is left to do: complete in the variables of the protocol, and with the
\* bucket given, where the reference is the last one to its bucket, and empty otherwise
\* (reconcile, from the grant to the final status update).
THEOREM SettledAccessStaysConsistent == Spec => []SettledAccessIsConsistent
<1>1. ASSUME AccessInv PROVE SettledAccessIsConsistent
  <2>1. SUFFICES ASSUME Settled PROVE SettledAccessIsConsistent
    BY Zenon DEF SettledAccessIsConsistent
  <2>2. AccessShape /\ SettledOK /\ SecretsOK
    BY Zenon, <1>1, <2>1 DEF AccessInv, NoAccess, Settled
  <2>3. PICK resp \in GrantAnswers :
          Good(resp) /\ Filled(resp, DOMAIN Configs) /\ granted = GrantedNow
    BY Zenon, <2>1, <2>2 DEF SettledOK
  <2>4. ASSUME NEW i \in DOMAIN access.bucketClaims,
               NEW id, id = bucketIdOf(access, access.bucketClaims[i]),
               NEW s, s = access.bucketClaims[i].accessSecretName,
               i = Last(refsTo(access, id))
        PROVE  /\ IsSaidBy(Decoded(secrets[s], access.protocol), access.protocol, resp, id)
               /\ \A v \in RequiredOfProtocol(access.protocol, access.authenticationType) :
                    secrets[s][v] # None
               /\ id \in DOMAIN granted
               /\ granted[id] = AccessModeToRpc(access.bucketClaims[i].accessMode)
    <3>1. /\ id \in DOMAIN Configs
          /\ Configs[id].accessSecretName = s
          /\ Configs[id].accessMode = AccessModeToRpc(access.bucketClaims[i].accessMode)
      BY Zenon, <2>4 DEF Configs, BucketConfigs
    <3>2. secrets[s] = StringData(resp, id)
      BY Zenon, <2>3, <3>1 DEF Filled
    <3>3. id \in DOMAIN granted /\ granted[id] = Configs[id].accessMode
      BY Zenon, <2>3, <3>1 DEF GrantedNow, Configs
    <3> QED BY Zenon, <2>2, <2>3, <3>1, <3>2, <3>3, GoodData
  <2>5. ASSUME NEW i \in DOMAIN access.bucketClaims,
               NEW id, id = bucketIdOf(access, access.bucketClaims[i]),
               NEW s, s = access.bucketClaims[i].accessSecretName,
               i # Last(refsTo(access, id))
        PROVE  secrets[s] = NoVars
    <3>1. s \in SecretName
      BY Zenon, <2>2, <2>5, ReferencedSecret
    <3>2. ASSUME NEW jd \in DOMAIN Configs, Configs[jd].accessSecretName = s PROVE FALSE
      <4>1. i = Last(refsTo(access, jd)) /\ jd = id
        BY Zenon, <2>2, <2>5, <3>2, ConfigsOK
      <4> QED BY Zenon, <2>5, <4>1
    <3> QED BY Zenon, <2>2, <3>1, <3>2 DEF SecretsOK
  <2>6. resp \in AnswersWith[access.protocol] /\ Accepted(resp)
    BY Zenon, <2>2, <2>3, GoodAnswer DEF Good
  <2>7. ASSUME NEW i \in DOMAIN access.bucketClaims
        PROVE  LET ref == access.bucketClaims[i]
                   id == bucketIdOf(access, ref)
                   data == secrets[ref.accessSecretName]
               IN  IF i # Last(refsTo(access, id)) THEN data = NoVars
                   ELSE /\ IsSaidBy(Decoded(data, access.protocol), access.protocol, resp, id)
                        /\ \A v \in RequiredOfProtocol(access.protocol,
                                                       access.authenticationType) :
                             data[v] # None
                        /\ id \in DOMAIN granted
                        /\ granted[id] = AccessModeToRpc(ref.accessMode)
    <3>1. PICK id : id = bucketIdOf(access, access.bucketClaims[i])
      BY Zenon
    <3>2. PICK s : s = access.bucketClaims[i].accessSecretName
      BY Zenon
    <3>3. CASE i = Last(refsTo(access, id))
      BY Zenon, <2>4, <2>7, <3>1, <3>2, <3>3
    <3>4. CASE i # Last(refsTo(access, id))
      BY Zenon, <2>5, <2>7, <3>1, <3>2, <3>4
    <3> QED BY Zenon, <3>3, <3>4
  <2> QED BY Zenon, <2>6, <2>7 DEF SettledAccessIsConsistent
<1> QED BY <1>1, InvariantHolds, PTL

\* Once the access is handed back with an account on record, the backend gives that
\* account nothing any more (newInternalRevokeAccessConfig lists at least what
\* newInternalAccessConfig asked for).
THEOREM RevokeAlwaysUndoesGrant == Spec => []RevokeUndoesGrant
<1>1. ASSUME AccessInv PROVE RevokeUndoesGrant
  BY Zenon, <1>1 DEF AccessInv, NoAccess, GrantOK, RevokeUndoesGrant
<1> QED BY <1>1, InvariantHolds, PTL

\* A ready Bucket's bucketInfo has variables of exactly the protocols in its status,
\* and these include the protocols of its spec (BucketInfoToApi).
THEOREM BucketInfoAlwaysTellsProtocols == Spec => []BucketInfoTellsProtocols
<1>1. ASSUME BucketInv PROVE BucketInfoTellsProtocols
  BY Zenon, <1>1 DEF BucketInv, NoBucket, Tells, BucketInfoTellsProtocols
<1> QED BY <1>1, InvariantHolds, PTL

\* Every variable is of its kind, and a Sidecar that serves has asked its driver: it
\* knows at least one protocol, each once and none unknown, whatever drivers answer and
\* however often the connection fails and the Sidecar restarts (main,
\* validateAndParseProtocols).
THEOREM SidecarTypes == Spec => []TypeOK
<1>1. Init => TInv
  BY Zenon, InitTypes
<1>2. TInv /\ [Next]_vars => TInv'
  <2> SUFFICES ASSUME TInv, [Next]_vars PROVE TInv'
    BY Zenon
  <2>1. CASE UNCHANGED vars
    BY Zenon, <2>1 DEF vars, mainVars, driverVars, accessVars, bucketVars, TInv, MainOK, ConnOK,
       CountersOK, JobType, BucketJobType
  <2> QED BY Zenon, <2>1, ProcessTypes, AccessTypes, BucketTypes DEF Next
<1>3. TInv => TypeOK
  <2> SUFFICES ASSUME TInv PROVE TypeOK
    BY Zenon
  <2>1. pc = "serving" => ProtocolsOK(info.supportedProtocols)
    BY Zenon, AcceptedProtocols DEF TInv, MainOK
  <2> QED BY Zenon, <2>1 DEF TypeOK, TInv, MainOK, ConnOK, CountersOK, JobType,
        BucketJobType, MainPc, JobPc, ProtocolsOK
<1> QED BY <1>1, <1>2, <1>3, PTL DEF Spec
=============================================================================
