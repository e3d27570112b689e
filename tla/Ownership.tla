----------------------------- MODULE Ownership -----------------------------
(***************************************************************************)
(* Who may complete the work of one run, and how that is transferred       *)
(* (ASOP.md 7.2; asop.ownership).                                          *)
(*                                                                         *)
(* People write transfer documents from what they read of the run and send *)
(* them whenever, again or too late; stores send flips of the run's beads  *)
(* with the ownership epoch they last read.  The run's record answers each *)
(* document with validate_transfer and each flip with check_flip.          *)
(***************************************************************************)
EXTENDS Integers, Sequences, FiniteSets

CONSTANTS
  Store,           \* stores, any of which may own the run
  Home,            \* the store the run was filed at
  Actor,           \* authenticated actors
  Humans,          \* those declared in ASOP_HUMANS
  Administrators,  \* those declared in ASOP_ADMINISTRATORS
  MaxEpoch,        \* bound: transfers written name an epoch up to this one
  MaxTransfers,    \* bound: documents ever written
  MaxEvidence      \* bound: flips accepted

ASSUME OwnershipAssumptions ==
  /\ Home \in Store
  /\ MaxEpoch \in Nat /\ MaxTransfers \in Nat /\ MaxEvidence \in Nat

VARIABLES
  owner, epoch,  \* the run's owner and its ownership epoch
  history,       \* the transfers it took, oldest first
  transfers,     \* documents written so far; any of them may be sent again
  belief,        \* [Store -> the run's epoch as the store last read it]
  flips,         \* flips in flight: the sending store and the epoch it claims, if any
  evidence       \* the flips the run accepted, oldest first

run == <<owner, epoch, history>>
vars == <<owner, epoch, history, transfers, belief, flips, evidence>>

Transfer == [from : Store, to : Store, epoch : Nat, by : Actor]

\* A flip that claims no epoch is taken to claim epoch 0.
Flip == [store : Store, epoch : Nat, claims : BOOLEAN]

-----------------------------------------------------------------------------
\* A slip: a transfer of an earlier epoch is good again.
ValidTransferAgain(t) ==
  t.by \in Humans \cap Administrators /\ t.from = owner /\ t.epoch <= epoch + 1 /\ t.to # owner

\* A slip: the epoch a transfer names is the one it leaves.
ValidTransferOfEpoch(t) ==
  t.by \in Humans \cap Administrators /\ t.from = owner /\ t.epoch = epoch /\ t.to # owner

\* The next transfer of THIS run, by a person who may order it.
ValidTransfer(t) ==
  /\ t.by \in Humans
  /\ t.by \in Administrators
  /\ t.from = owner /\ t.epoch = epoch + 1
  /\ t.to # owner

\* A slip: the epoch a flip claims is not looked at.
CheckFlipStore(f) == f.store = owner

\* The store owns the run at the epoch it claims.
CheckFlip(f) == f.store = owner /\ f.epoch = epoch

Init ==
  /\ owner = Home /\ epoch = 0 /\ history = <<>>
  /\ transfers = {}
  /\ belief = [s \in Store |-> 0]
  /\ flips = {} /\ evidence = <<>>

\* Somebody reads the run and writes a transfer of it, naming a source and a
\* destination.
WriteTransfer(by, from, to) ==
  /\ epoch < MaxEpoch /\ Cardinality(transfers) < MaxTransfers
  /\ transfers' = transfers \cup
       {[from |-> from, to |-> to, epoch |-> epoch + 1, by |-> by]}
  /\ UNCHANGED <<run, belief, flips, evidence>>

\* A document arrives, for the first time or again; an invalid one is refused
\* and changes nothing.
ApplyTransfer(t) ==
  /\ ValidTransfer(t)
  /\ owner' = t.to /\ epoch' = t.epoch
  /\ history' = Append(history, t)
  /\ UNCHANGED <<transfers, belief, flips, evidence>>

ReadRun(s) ==
  /\ belief[s] # epoch
  /\ belief' = [belief EXCEPT ![s] = epoch]
  /\ UNCHANGED <<run, transfers, flips, evidence>>

\* A store claims the epoch it read, or none when it predates epochs.
SendFlip(s, claims) ==
  /\ flips' = flips \cup {[store |-> s, epoch |-> IF claims THEN belief[s] ELSE 0,
                           claims |-> claims]}
  /\ UNCHANGED <<run, transfers, belief, evidence>>

\* A flip arrives; one that is not its owner's is refused `not_the_owner`.
AcceptFlip(f) ==
  /\ CheckFlip(f)
  /\ Len(evidence) < MaxEvidence
  /\ evidence' = Append(evidence, f)
  /\ flips' = flips \ {f}
  /\ UNCHANGED <<run, transfers, belief>>

Next ==
  \/ \E by \in Actor, from, to \in Store : WriteTransfer(by, from, to)
  \/ \E t \in transfers : ApplyTransfer(t)
  \/ \E s \in Store : ReadRun(s) \/ \E claims \in BOOLEAN : SendFlip(s, claims)
  \/ \E f \in flips : AcceptFlip(f)

Spec == Init /\ [][Next]_vars

\* A document that keeps being valid is delivered.  Nothing is assumed of any
\* store: the former owner may be gone.
FairSpec == Spec /\ WF_vars(\E t \in transfers : ApplyTransfer(t))

-----------------------------------------------------------------------------
(* Properties. *)

TypeOK ==
  /\ owner \in Store /\ epoch \in Nat
  /\ history \in Seq(Transfer)
  /\ transfers \subseteq Transfer
  /\ belief \in [Store -> Nat]
  /\ flips \subseteq Flip
  /\ evidence \in Seq(Flip)

\* The owner after the first n transfers.
OwnerAt(n) == IF n = 0 THEN Home ELSE history[n].to

\* The history is one unbroken chain of ownership: the epoch counts it, each
\* transfer leaves the owner the one before made, and of documents written
\* from the same state at most one is ever in it.
HistoryIsAChain ==
  /\ Len(history) = epoch
  /\ owner = OwnerAt(epoch)
  /\ \A n \in 1 .. epoch :
       /\ history[n].epoch = n
       /\ history[n].from = OwnerAt(n - 1)
       /\ history[n].to # history[n].from

\* Work is accepted only from the store that owned the run at the epoch it
\* claimed, and never from an owner before the last one heard: what a former
\* owner sends late stays out even when the run has come back to it.
EvidenceIsFenced ==
  \A i \in 1 .. Len(evidence) :
    /\ evidence[i].epoch <= epoch
    /\ evidence[i].store = OwnerAt(evidence[i].epoch)
    /\ \A j \in 1 .. i : evidence[j].epoch <= evidence[i].epoch

\* A store that predates epochs completes nothing once the run was transferred,
\* not even when the run is its own again.
LegacyStopsAtFirstTransfer ==
  [][epoch > 0 /\ evidence' # evidence => evidence'[Len(evidence')].claims]_vars

\* A transfer an administrator wrote from the run as it is now moves the run,
\* unless another moves it first.
WrittenTransferMovesRun ==
  \A n \in 1 .. MaxEpoch :
    (\E t \in transfers : /\ t.by \in Humans \cap Administrators
                          /\ t.epoch = n /\ epoch = n - 1
                          /\ t.from = owner /\ t.to # owner) ~> epoch >= n
=============================================================================
