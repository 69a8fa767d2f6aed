----------------------------- MODULE CertCache ------------------------------
(***************************************************************************)
(* ssl/CertCache.cpp with core/FileLock.cpp and SSLHelper::resignContext-  *)
(* Cert: the table of re-signed certificates in memory the worker          *)
(* processes share.  A worker that meets a server certificate searches the *)
(* table for the pair of certificate and private key made for it; if it    *)
(* finds none it signs a new pair and stores it.                           *)
(*                                                                         *)
(* The table is one for all workers if it is made before they are forked,  *)
(* as it is by the OpensslInitializer that every DaemonBase has.  A worker *)
(* that made its own (CertCache::getInstance when there is none yet) would *)
(* unlink the name and have a private table, without these races and       *)
(* without a cache in common.                                              *)
(*                                                                         *)
(* The fields of a node are written one after another, the ones that are   *)
(* copied piece by piece over a value Torn.  The file lock is taken with   *)
(* F_SETLK, which does not wait, and nobody looks at its result.           *)
(***************************************************************************)
EXTENDS Integers, FiniteSets

CONSTANTS
    Proc,        \* worker processes
    Orig,        \* server certificates: records with an issuer and a serial number
    Hash,        \* Hash::hash, the slot of a key name
    MaxSigned,   \* bound on the pairs signed
    Torn, None

VARIABLES
    nodes,       \* CertNode per slot
    at,          \* where a process is in resignContextCert
    orig,        \* the certificate it was called with
    pair,        \* the certificate and key it holds
    held,        \* its lock on the lock file: "no", "read" or "write"
    first,       \* the pair with which a key name's first store ended
    signed       \* number of pairs signed

certVars == <<nodes, at, orig, pair, held, first, signed>>

\* The issuer and the serial number, behind a digest.
getKeyName(o) == <<o.issuer, o.serialNumber>>
generateHashKey(name) == Hash[name]
Names == {getKeyName(o) : o \in Orig}
Slot == {generateHashKey(k) : k \in Names}
\* The n-th pair signed, for o.
Pair(o, n) == [for |-> o, no |-> n]
NoPair == [cert |-> None, pkey |-> None]

CertInit ==
    /\ nodes = [s \in Slot |-> [keyname |-> None, len |-> 0, cert |-> None, pkey |-> None]]
    /\ at = [p \in Proc |-> "idle"]
    /\ orig = [p \in Proc |-> None]
    /\ pair = [p \in Proc |-> NoPair]
    /\ held = [p \in Proc |-> "no"]
    /\ first = [k \in Names |-> None]
    /\ signed = 0

name(p) == getKeyName(orig[p])
node(p) == nodes[generateHashKey(name(p))]
Move(p, from, to) == at[p] = from /\ at' = [at EXCEPT ![p] = to]
set(p, field, value) == nodes' = [nodes EXCEPT ![generateHashKey(name(p))][field] = value]

-----------------------------------------------------------------------------
(* FileLock: the record lock of fcntl, by process.                          *)

\* lock_cmd with F_SETLK: granted when no other process's lock conflicts, else it fails and
\* the process goes on without.
lock_cmd(p, kind) ==
    held' = IF \E q \in Proc \ {p} : held[q] = "write" \/ (kind = "write" /\ held[q] = "read")
            THEN held ELSE [held EXCEPT ![p] = kind]
read_lock(p) == lock_cmd(p, "read")
lock(p) == lock_cmd(p, "write")
unlock(p) == held' = [held EXCEPT ![p] = "no"]

-----------------------------------------------------------------------------
(* resignContextCert: query, and if it fails sign and store.                *)

resignContextCert(p, o) ==
    /\ Move(p, "idle", "search")
    /\ orig' = [orig EXCEPT ![p] = o]
    /\ pair' = [pair EXCEPT ![p] = NoPair]
    /\ UNCHANGED <<nodes, held, first, signed>>

\* hashSearch: one node per hash key, its name compared under a read lock.
searchLock(p) ==
    /\ \/ Move(p, "search", "compare") \/ Move(p, "store", "recompare")
    /\ read_lock(p)
    /\ UNCHANGED <<nodes, orig, pair, first, signed>>

searchCompare(p) ==
    /\ at[p] \in {"compare", "recompare"}
    /\ at' = [at EXCEPT ![p] = IF node(p).keyname = name(p)
                               THEN IF @ = "compare" THEN "readcert" ELSE "use"
                               ELSE IF @ = "compare" THEN "sign" ELSE "writelen"]
    /\ unlock(p)
    /\ UNCHANGED <<nodes, orig, pair, first, signed>>

\* query converts certificate and key; what cannot be parsed counts as not found.
parse(p, field, next) ==
    /\ IF node(p).len # 0 /\ node(p)[field] \notin {None, Torn}
       THEN /\ pair' = [pair EXCEPT ![p][field] = node(p)[field]]
            /\ at' = [at EXCEPT ![p] = next]
       ELSE /\ pair' = [pair EXCEPT ![p] = NoPair]
            /\ at' = [at EXCEPT ![p] = "sign"]
    /\ UNCHANGED <<nodes, orig, held, first, signed>>
readCert(p) == at[p] = "readcert" /\ parse(p, "cert", "readpkey")
readPkey(p) == at[p] = "readpkey" /\ parse(p, "pkey", "use")

\* signCert: a new key and a certificate for it, or an error of OpenSSL.
signCert(p) ==
    /\ at[p] = "sign" /\ signed < MaxSigned
    /\ \/ /\ signed' = signed + 1
          /\ LET new == Pair(orig[p], signed + 1)
             IN  pair' = [pair EXCEPT ![p] = [cert |-> new, pkey |-> new]]
          /\ at' = [at EXCEPT ![p] = "store"]
       \/ /\ at' = [at EXCEPT ![p] = "idle"]
          /\ UNCHANGED <<pair, signed>>
    /\ UNCHANGED <<nodes, orig, held, first>>

\* store after its search: the lengths, the certificate, the key, and last the name; a
\* certificate that is too long is given up once the lengths are written.
writeLen(p) ==
    /\ \/ Move(p, "writelen", "cert1") \/ Move(p, "writelen", "idle")
    /\ set(p, "len", 1)
    /\ UNCHANGED <<orig, pair, held, first, signed>>

writeField(p, field, value, from, to) ==
    /\ Move(p, from, to)
    /\ set(p, field, value)
    /\ UNCHANGED <<orig, pair, held, first, signed>>
writeData(p) ==
    \/ writeField(p, "cert", Torn, "cert1", "cert2")
    \/ writeField(p, "cert", pair[p].cert, "cert2", "pkey1")
    \/ writeField(p, "pkey", Torn, "pkey1", "pkey2")
    \/ writeField(p, "pkey", pair[p].pkey, "pkey2", "lock")

storeLock(p) ==
    /\ Move(p, "lock", "name1")
    /\ lock(p)
    /\ UNCHANGED <<nodes, orig, pair, first, signed>>
writeName(p) ==
    /\ Move(p, "name1", "name2")
    /\ set(p, "keyname", Torn)
    /\ UNCHANGED <<orig, pair, held, first, signed>>
storeUnlock(p) ==
    /\ Move(p, "name2", "use")
    /\ set(p, "keyname", name(p))
    /\ first' = [first EXCEPT ![name(p)] = IF @ = None THEN pair[p] ELSE @]
    /\ unlock(p)
    /\ UNCHANGED <<orig, pair, signed>>

\* The server side of the connection takes the pair.
use(p) ==
    /\ Move(p, "use", "idle")
    /\ pair' = [pair EXCEPT ![p] = NoPair]
    /\ UNCHANGED <<nodes, orig, held, first, signed>>

CertNext ==
    \E p \in Proc :
        \/ \E o \in Orig : resignContextCert(p, o)
        \/ searchLock(p) \/ searchCompare(p) \/ readCert(p) \/ readPkey(p) \/ signCert(p)
        \/ writeLen(p) \/ writeData(p) \/ storeLock(p) \/ writeName(p) \/ storeUnlock(p)
        \/ use(p)

Cert == CertInit /\ [][CertNext]_certVars

-----------------------------------------------------------------------------
(* Properties.                                                              *)

\* CertCache.cpp:59, "Not update resigned certificate, if it was ever stored": a node that
\* carries a server certificate's name has the pair its first store wrote.
StoredOnce ==
    \A k \in Names : first[k] # None /\ nodes[generateHashKey(k)].keyname = k
        => /\ nodes[generateHashKey(k)].cert = first[k].cert
           /\ nodes[generateHashKey(k)].pkey = first[k].pkey
=============================================================================
