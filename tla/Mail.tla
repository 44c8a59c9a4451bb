-------------------------------- MODULE Mail --------------------------------
(***************************************************************************)
(* The messages under way between ranks, as a value: a queue for every     *)
(* <<from, to, tag>> that has any.  This is what Channels.tla promises and *)
(* CommMailbox.tla and MpiBackend.tla keep.                                *)
(***************************************************************************)
EXTENDS Sequences, Functions, TLC

NoMail == <<>>

Waiting(mail, key) == IF key \in DOMAIN mail THEN mail[key] ELSE <<>>
Has(mail, keys) == keys \subseteq DOMAIN mail
First(mail, key) == Head(mail[key])

\* CommSend of every message of a function from keys to messages.
Sent(mail, msgs) ==
  [key \in DOMAIN mail \cup DOMAIN msgs |->
     IF key \in DOMAIN msgs THEN Append(Waiting(mail, key), msgs[key]) ELSE mail[key]]

\* CommRecv of one message from each of these queues.
Receive(mail, keys) ==
  LET left == [key \in DOMAIN mail |-> IF key \in keys THEN Tail(mail[key]) ELSE mail[key]]
  IN  Restrict(left, {key \in DOMAIN left : left[key] # <<>>})
=============================================================================
