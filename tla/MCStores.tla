-------------------------------- MODULE MCStores --------------------------------
(* The stores and the host's calls side by side: each behaviour is one of  *)
(* a single part, chosen at the start, so the parts do not multiply.       *)
EXTENDS KeyStores, MemoryCache, MemoryProfiles, WebhookHost, SessionRows, Transactions

CONSTANTS q1, q2, a1, a2

(* Two requests tell one fact each, the third nothing or the first's fact. *)
HeadersOf ==
  [r \in Requests |-> CASE r = q1 -> {{a1}} [] r = q2 -> {{a2}} [] OTHER -> {{}, {a1}}]

VARIABLE part

others == <<sessionVars, transactionVars>>
keysAside == <<part, cacheVars, profileVars, hostVars, others>>
cacheAside == <<part, keyVars, profileVars, hostVars, others>>
profilesAside == <<part, keyVars, cacheVars, hostVars, others>>
hostAside == <<part, keyVars, cacheVars, profileVars, others>>
older == <<keyVars, cacheVars, profileVars, hostVars>>
sessionsAside == <<part, older, transactionVars>>
transactionsAside == <<part, older, sessionVars>>

Init ==
  /\ part \in {"keys", "cache", "profiles", "dispatch", "worker", "sessions", "transactions"}
  /\ KeyStoreInit /\ (part = "keys" \/ store = "memory")
  /\ MemoryCacheInit /\ ProfilesInit
  /\ HostInit /\ (part = "dispatch" \/ subscribed = {})
  /\ SessionsInit
  /\ TransactionsInit /\ (part = "transactions" \/ pooled)

Next ==
  \/ part = "keys" /\ KeyStoreNext /\ UNCHANGED keysAside
  \/ part = "cache" /\ MemoryCacheNext /\ UNCHANGED cacheAside
  \/ part = "profiles" /\ ProfilesNext /\ UNCHANGED profilesAside
  \/ part = "dispatch" /\ DispatchNext /\ UNCHANGED hostAside
  \/ part = "worker" /\ WorkerNext /\ UNCHANGED hostAside
  \/ part = "sessions" /\ SessionsNext /\ UNCHANGED sessionsAside
  \/ part = "transactions" /\ TransactionsNext /\ UNCHANGED transactionsAside

Spec == Init /\ [][Next]_<<part, keyVars, cacheVars, profileVars, hostVars, others>>
================================================================================
