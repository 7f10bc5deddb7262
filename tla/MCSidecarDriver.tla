--------------------------- MODULE MCSidecarDriver ---------------------------
(***************************************************************************)
(* Instances of SidecarDriver for TLC.  A text names the field, the bucket *)
(* and the round of answers it belongs to, so that nothing that is swapped *)
(* or left over looks right by accident.                                   *)
(***************************************************************************)
EXTENDS SidecarDriver

CONSTANTS Buckets2,   \* the protocols tried with two buckets, and with one
          Buckets1

MCText == {<<f, b, r>> : f \in {"bucketId", "endpoint", "region", "accessKeyId",
                                "accessSecretKey", "storageAccount", "accessToken",
                                "expiryTimestamp", "bucketName", "projectId", "accessId",
                                "accessSecret", "privateKeyName", "serviceAccount"},
                         b \in {"b1", "b2", "all"}, r \in 1 .. 2}

Info(p, b, r) ==
    CASE p = "S3" -> [bucketId |-> <<"bucketId", b, r>>, endpoint |-> <<"endpoint", b, r>>,
                      region |-> <<"region", b, r>>,
                      addressingStyle |-> IF r = 1 THEN "PATH" ELSE "VIRTUAL"]
      [] p = "Azure" -> [storageAccount |-> <<"storageAccount", b, r>>]
      [] p = "GCS" -> [bucketName |-> <<"bucketName", b, r>>,
                       projectId |-> <<"projectId", b, r>>]
Creds(p, r) ==
    CASE p = "S3" -> [accessKeyId |-> <<"accessKeyId", "all", r>>,
                      accessSecretKey |-> <<"accessSecretKey", "all", r>>]
      [] p = "Azure" -> [accessToken |-> <<"accessToken", "all", r>>,
                         expiryTimestamp |-> <<"expiryTimestamp", "all", r>>]
      [] p = "GCS" -> [accessId |-> <<"accessId", "all", r>>,
                       accessSecret |-> <<"accessSecret", "all", r>>,
                       privateKeyName |-> <<"privateKeyName", "all", r>>,
                       serviceAccount |-> <<"serviceAccount", "all", r>>]

\* A message with at most one field that is not set, or with an unknown style.
Blanked(m) == {m} \cup {[m EXCEPT ![f] = None] : f \in DOMAIN m}
                  \cup {[m EXCEPT ![f] = "UNKNOWN"] : f \in DOMAIN m \cap {"addressingStyle"}}
Only(p, m) == [q \in ApiProtocols |-> IF q = p THEN m ELSE None]

Entry(b, bi) == [bucketId |-> b, bucketInfo |-> bi]
Entries(p, ids, r) == [i \in DOMAIN ids |-> Entry(ids[i], Only(p, Info(p, ids[i], r)))]
Answer(account, creds, entries) ==
    [accountId |-> account, credentials |-> creds, buckets |-> entries]

\* Answers: complete ones, and ones with a single thing missing or too many.
AnswersFor(p) ==
    LET c(r) == Only(p, Creds(p, r))
        lists == {<<"b1">>, <<"b1", "b2">>, <<"b2", "b1">>}
    IN  {Answer("account", Only(p, m), Entries(p, ids, 1)) :
            m \in Blanked(Creds(p, 1)), ids \in {<<"b1">>, <<"b1", "b2">>}}
        \cup {Answer("account", c(2), Entries(p, ids, 2)) : ids \in lists}
        \cup {Answer("account", Only(p, m), Entries(p, ids, 2)) :
                m \in IF p = "Azure" THEN {[Creds(p, 2) EXCEPT !.expiryTimestamp = None]} ELSE {},
                ids \in lists}
        \cup {Answer("account", c(1), <<Entry("b1", Only(p, m))>>) : m \in Blanked(Info(p, "b1", 1))}
        \cup {Answer("account", c(1), es) :
                es \in {<<Entry("b1", None)>>, <<Entry(None, Only(p, Info(p, "b1", 1)))>>, <<>>,
                        \* one bucket twice
                        Entries(p, <<"b1">>, 1) \o Entries(p, <<"b1">>, 2)}}
        \cup {Answer(None, c(1), Entries(p, <<"b1">>, 1)),
              Answer("account", None, Entries(p, <<"b1">>, 1)),
              Answer("account", [q \in ApiProtocols |-> Creds(q, 1)], Entries(p, <<"b1">>, 1)),
              Answer("account", c(1),
                     <<Entry("b1", [q \in ApiProtocols |-> Info(q, "b1", 1)])>>)}

MCGrantAnswers == UNION {AnswersFor(p) : p \in Buckets1 \cup Buckets2}

Ref(c, mode, s) == [bucketClaimName |-> c, accessMode |-> mode, accessSecretName |-> s]
Access(p, auth, refs, idOf) ==
    [protocol |-> p, authenticationType |-> auth, bucketClaims |-> refs, idOf |-> idOf]
TwoRefs == <<Ref("c1", "ReadWrite", "s1"), Ref("c2", "ReadOnly", "s2")>>

\* Two buckets, two claims on one bucket, a claim named twice, and one bucket.
Accesses ==
    {Access(p, "Key", TwoRefs, [c1 |-> "b1", c2 |-> "b2"]) : p \in Buckets2}
    \cup {Access(p, "ServiceAccount", TwoRefs, [c1 |-> "b1", c2 |-> "b1"]) : p \in Buckets2}
    \cup {Access(p, "Key", <<Ref("c1", "ReadWrite", "s1"), Ref("c1", "ReadOnly", "s2")>>,
                 [c1 |-> "b1"]) : p \in Buckets2}
    \cup {Access(p, auth, <<Ref("c1", "WriteOnly", "s1")>>, [c1 |-> "b1"]) :
            p \in Buckets1, auth \in {"Key", "ServiceAccount"}}

MCWorlds == {[access |-> sub, bucket |-> None] : sub \in Accesses}
            \cup {[access |-> None, bucket |-> protos] : protos \in {{}, {"S3"}, {"GCS"}}}

MCBucketAnswers ==
    {[bucketId |-> "b1", protocols |-> bi] :
        bi \in {None} \cup {[q \in ApiProtocols |-> IF q \in ps THEN Info(q, "b1", 1) ELSE None] :
                              ps \in {{}, {"S3"}, {"S3", "Azure"}, {"GCS"}}}}
    \cup {[bucketId |-> None, protocols |-> Only("S3", Info("S3", "b1", 1))]}

DriverName(n, labels) == [length |-> n, dnsLabels |-> labels]
MCInfoAnswers ==
    {[name |-> n, supportedProtocols |-> ps] :
        n \in {DriverName(63, TRUE)}, ps \in {<<>>, <<"S3", "AZURE">>, <<"S3", "S3">>}}
    \cup {[name |-> n, supportedProtocols |-> <<"GCS", "UNKNOWN">>] : n \in {DriverName(1, TRUE)}}
    \cup {[name |-> n, supportedProtocols |-> <<"S3">>] :
            n \in {DriverName(64, TRUE), DriverName(9, FALSE)}}
=============================================================================
