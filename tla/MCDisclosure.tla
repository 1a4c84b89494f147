---------------------------- MODULE MCDisclosure ----------------------------
(* Many requests and consents over plain claims, and many claims under few     *)
(* requests and consents.                                                      *)
EXTENDS Disclosure
CONSTANTS c1, c2, s1, s2

Grant(subject, purposes, granted, rank, from, until, revoked) ==
    [subject |-> subject, recipient |-> s2, purposes |-> purposes, fields |-> granted,
     sensitivity |-> rank, from |-> from, until |-> until, revoked |-> revoked]

Ask(subject, recipient, asked, rank) ==
    [subject |-> subject, recipient |-> recipient, purpose |-> "care", fields |-> asked,
     sensitivity |-> rank, validAt |-> 1, knownAt |-> 1]

AskedFields ==
    {{"kernel"}, {"kernel", "readiness"}, {"counterweights", "voice"}, {"raw_evidence"},
     {"kernel", "raw_evidence"}}

ManyRequests ==
    {Ask(s, r, f, n) : s \in {s1, s2}, r \in {s1, s2}, f \in AskedFields, n \in 0..1}

ManyConsents ==
    {Grant(s, u, f, n, v[1], v[2], x) :
        s \in {s1, s2}, u \in {{}, {"care"}},
        f \in {{"kernel"}, Artifacts, Artifacts \cup {"raw_evidence"}}, n \in 0..1,
        v \in {<<0, 2>>, <<1, 3>>}, x \in BOOLEAN}
      \cup {NoConsent}

PlainClaim ==
    [kind |-> "communication", review |-> "accepted", stale |-> FALSE, sensitivity |-> 0,
     from |-> 0, until |-> Forever, recorded |-> 0]

FewRequests ==
    {Ask(s1, s2, f, n) :
        f \in {{"kernel", "readiness"}, {"counterweights"}, {"voice", "readiness"}}, n \in 0..1}

FewConsents == {Grant(s1, {"care"}, Artifacts, n, 0, 2, FALSE) : n \in 0..1}

ManyClaims ==
    [kind : {"communication", "preference"}, review : {"accepted", "contested"}, stale : BOOLEAN,
     sensitivity : 0..1, from : {0, 2}, until : {Forever}, recorded : {0}]
       \cup [kind : {"boundary"}, review : {"proposed", "accepted"}, stale : {FALSE},
             sensitivity : {0}, from : {0}, until : {1, Forever}, recorded : {0, 2}]

MCCases ==
    [claims : {[id \in Claims |-> PlainClaim]}, request : ManyRequests, consent : ManyConsents]
      \cup [claims : [Claims -> ManyClaims], request : FewRequests, consent : FewConsents]
=============================================================================
