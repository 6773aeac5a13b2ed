--------------------------- MODULE KeyDistribution ---------------------------
(***************************************************************************)
(* Who can verify which token: the ring of signing keys in Vault, the copy *)
(* each replica of the auth service takes at its start (keys.py), the JWKS *)
(* document any replica may be asked for, and the cache each verifier      *)
(* keeps of it for 300 seconds (jwt_dep.py, JWKSCache).                    *)
(*                                                                         *)
(* A token is known by the key that signed it.  This module has the state  *)
(* and the steps; RequestPath says which request takes which step when.    *)
(***************************************************************************)
EXTENDS Naturals, FiniteSets

CONSTANTS
  Auth,         \* replicas of the auth service
  Verifier,     \* processes with a JWKSCache
  Key, NoKey,   \* signing keys; NoKey is also a kid nobody ever had
  Req,          \* requests that may ever arrive (bound)
  MaxRestarts,  \* restarts of auth replicas, in all (bound)
  Faults        \* "vault", "fetch", "upstream", "handler", "limits"

ASSUME KeyDistributionAssumption ==
  /\ NoKey \notin Key
  /\ MaxRestarts \in Nat

VARIABLES
  vault,     \* secret auth/keys: the active key and the one before it
  ring,      \* KeyRing of each auth replica
  minted,    \* keys that have been generated
  signed,    \* keys with which a replica may have signed a token
  restarts,  \* how many restarts there were
  cache,     \* JWKSCache of each verifier: _keys, and whether _exp lies ahead
  token,     \* the key each request's token was signed with
  look,      \* where a request's call of JWKSCache.get is
  got,       \* the document its own fetch was answered with
  exposed,   \* history: requests during which some ring lacked their key
  gone       \* history: keys that were nowhere when a cache last expired

rings == <<vault, ring, minted, signed, restarts>>
looks == <<look, got>>
keyVars == <<rings, cache, token, looks, exposed, gone>>

Ring  == [active : Key, previous : Key \cup {NoKey}]
Cache == [keys : SUBSET Key, fresh : BOOLEAN]

\* KeyRing.jwks, /.well-known/jwks.json: the public halves of what is there.
Jwks(r) == {r.active, r.previous} \ {NoKey}

KeyTypeOK ==
  /\ vault    \in Ring
  /\ ring     \in [Auth -> Ring]
  /\ minted   \subseteq Key
  /\ signed   \subseteq minted
  /\ restarts \in 0..MaxRestarts
  /\ cache    \in [Verifier -> Cache]
  /\ token    \in [Req -> Key \cup {NoKey}]
  /\ look     \in [Req -> {"none", "asked", "answered"}]
  /\ got      \in [Req -> SUBSET Key]
  /\ exposed  \subseteq Req
  /\ gone     \in [Verifier -> SUBSET Key]

KeyInit ==
  /\ \E k \in Key : /\ vault = [active |-> k, previous |-> NoKey]
                    /\ minted = {k}
                    /\ signed = {k}
  /\ ring     = [a \in Auth |-> vault]
  /\ restarts = 0
  /\ cache    = [v \in Verifier |-> [keys |-> {}, fresh |-> FALSE]]
  /\ token    = [r \in Req |-> NoKey]
  /\ look     = [r \in Req |-> "none"]
  /\ got      = [r \in Req |-> {}]
  /\ exposed  = {}
  /\ gone     = [v \in Verifier |-> {}]

-----------------------------------------------------------------------------
(* Rings *)

Mint(k) == k \in Key \ minted /\ minted' = minted \cup {k}

\* An operator's rotation of the secret (no code of the repository does it).
\* Nobody tells the replicas.
Rotate ==
  /\ \E k \in Key : /\ Mint(k)
                    /\ vault' = [active |-> k, previous |-> vault.active]
  /\ UNCHANGED <<ring, signed, restarts, cache, token, looks, exposed, gone>>

\* Requests whose key is missing from a ring.
Lacking(rg, tk) == {r \in Req : \E a \in Auth : tk[r] \notin Jwks(rg[a])}

\* `under` are the requests under way.
Install(a, new, under) ==
  /\ restarts < MaxRestarts
  /\ ring' = [ring EXCEPT ![a] = new]
  /\ signed' = signed \cup {new.active}
  /\ restarts' = restarts + 1
  /\ exposed' = exposed \cup (under \cap Lacking(ring', token))

\* What a replica that logs in to Vault reads there.
KvGet == vault

\* keyring_from_env at the start of a replica: load_from_vault.
StartFromVault(a, under) ==
  /\ Install(a, KvGet, under)
  /\ UNCHANGED <<vault, minted, cache, token, looks, gone>>

\* Mutant: without Vault the ring stays empty.
StartEmpty(a, under) ==
  /\ "vault" \in Faults
  /\ restarts < MaxRestarts
  /\ ring' = [ring EXCEPT ![a] = [active |-> NoKey, previous |-> NoKey]]
  /\ restarts' = restarts + 1
  /\ UNCHANGED <<vault, minted, signed, cache, token, looks, exposed, gone>>

\* Vault cannot be reached, whatever the reason: `except Exception: pass` and
\* bootstrap_local.
StartEphemeral(a, under) ==
  /\ "vault" \in Faults
  /\ \E k \in Key : Mint(k) /\ Install(a, [active |-> k, previous |-> NoKey], under)
  /\ UNCHANGED <<vault, cache, token, looks, gone>>

-----------------------------------------------------------------------------
(* JWKSCache.get(kid): a request r at a verifier v *)

\* Present a token some replica signed, or one whose kid nobody knows.
Bear(r) ==
  /\ \E k \in signed \cup {NoKey} : token' = [token EXCEPT ![r] = k]
  /\ exposed' = exposed \cup ({r} \cap Lacking(ring, token'))
  /\ UNCHANGED <<rings, cache, looks, gone>>

\* Mutant: only an expired cache is fetched again.
MustAskExpired(r, v) == ~cache[v].fresh

\* Mutant: only an unknown kid makes it fetch again.
MustAskUnknown(r, v) == token[r] \notin cache[v].keys

MustAsk(r, v) == ~cache[v].fresh \/ token[r] \notin cache[v].keys

\* The cache is taken as it is: no await.
Hit(r, v) == /\ look[r] = "none" /\ ~MustAsk(r, v)
             /\ UNCHANGED keyVars

Ask(r, v) == /\ look[r] = "none" /\ MustAsk(r, v)
             /\ look' = [look EXCEPT ![r] = "asked"]
             /\ UNCHANGED <<rings, cache, token, got, exposed, gone>>

\* Any replica answers, with the ring it has.
Serve(r) == /\ look[r] = "asked"
            /\ look' = [look EXCEPT ![r] = "answered"]
            /\ \E a \in Auth : got' = [got EXCEPT ![r] = Jwks(ring[a])]
            /\ UNCHANGED <<rings, cache, token, exposed, gone>>

\* _refresh ends: the answer replaces what the cache holds, be it newer.  The
\* check that follows comes before any other handler's step.
Fill(r, v) == /\ look[r] = "answered"
              /\ look' = [look EXCEPT ![r] = "none"]
              /\ cache' = [cache EXCEPT ![v] = [keys |-> got[r], fresh |-> TRUE]]
              /\ got' = [got EXCEPT ![r] = {}]
              /\ UNCHANGED <<rings, token, exposed, gone>>

\* Timeout, refused connection, bad status: httpx raises, nobody catches it.
FetchRaises(r) == /\ "fetch" \in Faults
                  /\ look[r] # "none"
                  /\ look' = [look EXCEPT ![r] = "none"]
                  /\ got' = [got EXCEPT ![r] = {}]
                  /\ UNCHANGED <<rings, cache, token, exposed, gone>>

\* Keys that no ring, no secret and no answer on its way still has.
Nowhere(asking) ==
  minted \ (Jwks(vault) \cup (UNION {Jwks(ring[a]) : a \in Auth})
                        \cup (UNION {got[r] : r \in asking}))

\* The 300 seconds of a verifier's cache are over; `asking` are the requests
\* with a fetch under way there.
ExpireCache(v, asking) ==
  /\ cache[v].fresh
  /\ cache' = [cache EXCEPT ![v] = [keys |-> @.keys, fresh |-> FALSE]]
  /\ gone' = [gone EXCEPT ![v] = @ \cup Nowhere(asking)]
  /\ UNCHANGED <<rings, token, looks, exposed>>
=============================================================================
