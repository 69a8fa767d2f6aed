----------------------------- MODULE DNSMessage -----------------------------
(***************************************************************************)
(* The query and the answer of dns/DNSResolver.cpp, on messages as the     *)
(* parser walks them: a header and a body of fields                        *)
(*    "label"     one label of a name, length and text                     *)
(*    "end"       the zero octet that ends a name                          *)
(*    "pointer"   a compression pointer to an offset below 256             *)
(*    "far"       one to an offset from 256 on, whose first octet the test *)
(*                of startWithLabel takes for a label of some 200 octets   *)
(*    "A","other" type, class, ttl, length and data of a record or, of the *)
(*                question, type and class                                 *)
(* The receive buffer is zero behind the message: an empty name and a      *)
(* record of type 0.                                                       *)
(***************************************************************************)
EXTENDS Naturals, Sequences, FiniteSetsExt

Field == {"label", "end", "pointer", "far", "A", "other"}
At(body, i) == IF i <= Len(body) THEN body[i] ELSE "end"

\* packDNSQuery for a host name of n labels: a fresh ID_, one question, and one additional
\* record, OPT of the root.
packDNSQuery(n) ==
    [id |-> "mine", questions |-> 1, answers |-> 0, additions |-> 1,
     body |-> [i \in 1 .. n |-> "label"] \o <<"end", "A", "end", "other">>]

\* resolveRRName: the places where it can stand behind the name that starts at i.
resolveRRName(body, i) ==
    LET j == Min({k \in i .. (Len(body) + 1) : At(body, k) # "label"})
    IN  IF At(body, j) = "far" THEN (j + 1) .. (Len(body) + 2) ELSE {j + 1}
\* resolveRR: the type of the record that starts at i and the place behind it.
resolveRR(body, i) ==
    {[type |-> At(body, j), next |-> j + 1] : j \in resolveRRName(body, Min({i, Len(body) + 1}))}
\* The types that can be found as record n of the message.
recordType(m, n) ==
    LET start[k \in 1 .. n] ==
            IF k = 1 THEN {j + 1 : j \in resolveRRName(m.body, 1)}
            ELSE UNION {{r.next : r \in resolveRR(m.body, i)} : i \in start[k - 1]}
    IN  {r.type : r \in UNION {resolveRR(m.body, i) : i \in start[n]}}

\* resvDNSAnswer: DNS_OK for the first A record among the answers; a message whose first
\* two octets contain a zero counts as empty, and what authorities and additions hold is
\* walked and not used.
resvDNSAnswer(q, m) ==
    CASE m.id = "zero" -> {"DNS_ERR"}
      [] m.id \notin {"zero", q.id} -> {"DNS_ID_MISMATCH"}
      [] m.id = q.id ->
           LET found(n) == recordType(m, n)
           IN  {"DNS_OK" : n \in {k \in 1 .. m.answers : "A" \in found(k)}}
               \cup IF \E k \in 1 .. m.answers : found(k) = {"A"} THEN {} ELSE {"DNS_ERR"}
=============================================================================
