------------------------------ MODULE MCProcess ------------------------------
(* Bounds for LocketProcess: a joint lock of three locks.                  *)
EXTENDS LocketProcess

JointLocks == <<"lock1", "lock2", "lock3">>
TimedLocks == {"lock2", "lock3"}
AllRunners == {"server", "burglar", "metrics-notifier", "registration-runner"}
              \cup {"lock1", "lock2", "lock3"}
=============================================================================
