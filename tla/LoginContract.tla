---------------------------- MODULE LoginContract ----------------------------
(***************************************************************************)
(* What gg_login(), gg_watch_fd(), gg_logoff() and gg_free_session()       *)
(* promise their caller, without hubs, proxies, descriptors or packets:    *)
(* the caller is told once how the login ended, at the moment it ends, a   *)
(* login that ended badly never comes to life again, and the password is   *)
(* kept no longer than the login needs it.                                 *)
(***************************************************************************)
VARIABLES
  life,    \* "none", "pending", "online", "over", "off" or "gone"
  told,    \* "nothing", "success", "failure" or "broken"
  secret   \* the session holds the password

contractVars == <<life, told, secret>>

CInit == life = "none" /\ told = "nothing" /\ secret = FALSE

\* gg_login() starts a login or returns NULL.
Begin ==
  /\ life = "none"
  /\ told' = "nothing"
  /\ \/ life' = "pending" /\ secret' = TRUE
     \/ life' = "gone" /\ secret' = FALSE

\* A step of the login; one of them uses the password up.
Progress ==
  /\ life = "pending" /\ life' = "pending"
  /\ told' = "nothing"
  /\ secret' => secret

Succeed ==
  /\ life = "pending" /\ life' = "online"
  /\ told' = "success"
  /\ ~secret /\ ~secret'

\* An asynchronous login leaves a dead session behind, a synchronous one none.
Fail ==
  /\ life = "pending" /\ told' = "failure"
  /\ \/ life' = "over" /\ (secret' => secret)
     \/ life' = "gone" /\ ~secret'

Serve ==
  /\ life = "online" /\ life' = "online"
  /\ told' \in {"nothing", "broken"}
  /\ secret' = secret

TurnOff ==
  /\ life \in {"pending", "online"} /\ life' = "off"
  /\ told' = "nothing"
  /\ secret' = secret

\* Calls on a session that is over or logged off change nothing.
Idle ==
  /\ life \in {"off", "over"} /\ life' = life
  /\ told' = "nothing"
  /\ secret' = secret

Free ==
  /\ life \in {"pending", "online", "over", "off"} /\ life' = "gone"
  /\ told' = "nothing"
  /\ ~secret'

CNext == Begin \/ Progress \/ Succeed \/ Fail \/ Serve \/ TurnOff \/ Idle \/ Free

CSpec == CInit /\ [][CNext]_contractVars
=============================================================================
