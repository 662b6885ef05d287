---------------------------- MODULE LockService ------------------------------
(***************************************************************************)
(* What a lock service promises its clients: a lock is held by one owner   *)
(* at a time and passes to another only by way of nobody, and every grant, *)
(* a refresh included, has a token that was never issued before for that   *)
(* lock, so that an earlier tenure cannot be taken for a later one.  The   *)
(* service may take a lock from its holder; when it does so is the subject *)
(* of Expiration.tla.                                                      *)
(***************************************************************************)
CONSTANTS
  Keys,     \* lock names
  Owners,   \* those who can hold a lock
  Nobody,   \* the holder of a free lock
  NoToken   \* the token of a lock that is not granted

VARIABLES
  holder,   \* who holds each lock
  token,    \* the token of its grant
  issued    \* tokens that have been issued for it

Grant(k, o) ==
  /\ holder[k] \in {Nobody, o}
  /\ holder' = [holder EXCEPT ![k] = o]
  /\ token'[k] \notin issued[k]
  /\ issued[k] \cup {token'[k]} \subseteq issued'[k]
  /\ \A j \in Keys \ {k} : token'[j] = token[j] /\ issued'[j] = issued[j]

Withdraw(k) ==
  /\ holder' = [holder EXCEPT ![k] = Nobody]
  /\ token' = [token EXCEPT ![k] = NoToken]
  /\ UNCHANGED issued

ServiceInit == holder \in [Keys -> Owners \cup {Nobody}]

ServiceNext == \E k \in Keys : Withdraw(k) \/ \E o \in Owners : Grant(k, o)

ServiceSpec == ServiceInit /\ [][ServiceNext]_<<holder, token, issued>>
=============================================================================
