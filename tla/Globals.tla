------------------------------- MODULE Globals -------------------------------
(***************************************************************************)
(* The statics of the process that worker threads share without a lock:    *)
(* the logger, made by whoever logs first, and the key register of d3des,  *)
(* loaded and used again for every challenge that is answered.             *)
(*                                                                         *)
(* Threads are free to log and to answer as often as requests make them.   *)
(* One write to the file, one load of a pointer and one load or store of a *)
(* word of the register are one step; the words may go in any order, which *)
(* is what an optimised copy leaves undecided.  Two writes to the file at  *)
(* the very same moment are not modelled.                                  *)
(***************************************************************************)
EXTENDS Naturals

CONSTANTS
  Thread,     \* workers of the process
  Word,       \* the words of the register: 32
  Password,   \* passwords, as their first eight bytes
  Short,      \* those that end before the eighth byte
  Junk,       \* the key of a short one and of the memory that lies behind it
  None        \* no key, no password

ASSUME ShortAssumption == Short \subseteq Password

ASSUME NoneAssumption == None \notin Password /\ Junk \notin Password

ASSUME WordAssumption == Word # {}

VARIABLES
  instance,   \* is logger::instance set?
  opened,     \* is logfile open?
  good,       \* no error flag of logfile is set
  KnL,        \* the register: the key each word is of
  pc,
  password,   \* of the client a thread works for, and
  key,        \* the key deskey makes of it
  todo,       \* words yet to be written or read
  block,      \* of the challenge: 1 or 2
  used,       \* the keys of the words the response was made with
  raced,      \* history: two threads were creating the logger at once
  meddled     \* history: keys others have stored since the thread began to

log_vars == <<instance, opened, good, raced>>

des_vars == <<KnL, password, key, todo, block, used, meddled>>

vars == <<log_vars, des_vars, pc>>

Key == Password \cup {Junk}

Creating == {"create", "open"}

Answering == {"usekey", "des"}

TypeOK ==
  /\ instance \in BOOLEAN /\ opened \in BOOLEAN /\ good \in BOOLEAN /\ raced \in BOOLEAN
  /\ KnL \in [Word -> Key \cup {None}]
  /\ pc \in [Thread -> {"idle", "write"} \cup Creating \cup Answering]
  /\ password \in [Thread -> Password \cup {None}]
  /\ key \in [Thread -> Key \cup {None}]
  /\ todo \in [Thread -> SUBSET Word]
  /\ block \in [Thread -> {1, 2}]
  /\ used \in [Thread -> SUBSET (Key \cup {None})]
  /\ meddled \in [Thread -> SUBSET (Key \cup {None})]

Init ==
  /\ instance = FALSE /\ opened = FALSE /\ good = TRUE /\ raced = FALSE
  /\ KnL = [w \in Word |-> None]
  /\ pc = [t \in Thread |-> "idle"]
  /\ password = [t \in Thread |-> None] /\ key = [t \in Thread |-> None]
  /\ todo = [t \in Thread |-> {}] /\ block = [t \in Thread |-> 1]
  /\ used = [t \in Thread |-> {}] /\ meddled = [t \in Thread |-> {}]

Goto(t, p) == pc' = [pc EXCEPT ![t] = p]

-----------------------------------------------------------------------------
\* The logger

\* get_logger finds the instance, or no instance.
GetLogger(t) ==
  /\ pc[t] = "idle"
  /\ Goto(t, IF instance THEN "write" ELSE "create")
  /\ raced' = (raced \/ (~instance /\ \E u \in Thread \ {t} : pc[u] \in Creating))
  /\ UNCHANGED <<instance, opened, good, des_vars>>

Create(t) ==
  /\ pc[t] = "create"
  /\ instance' = TRUE
  /\ Goto(t, "open")
  /\ UNCHANGED <<opened, good, raced, des_vars>>

\* Mutant: a success leaves the flags as they were.
OpenUncleared(t) ==
  /\ pc[t] = "open"
  /\ opened' = TRUE
  /\ good' = (good /\ ~opened)
  /\ Goto(t, "write")
  /\ UNCHANGED <<instance, raced, des_vars>>

\* open clears the flags on success; of a file that is open it fails, and nobody
\* clears that.
Open(t) ==
  /\ pc[t] = "open"
  /\ opened' = TRUE
  /\ good' = ~opened
  /\ Goto(t, "write")
  /\ UNCHANGED <<instance, raced, des_vars>>

\* A write to a file that is not open sets an error flag; with a flag set nothing is
\* written.
Write(t) ==
  /\ pc[t] = "write"
  /\ good' = (good /\ opened)
  /\ Goto(t, "idle")
  /\ UNCHANGED <<instance, opened, raced, des_vars>>

-----------------------------------------------------------------------------
\* The register

\* deskey reads eight bytes of the password, whatever its length.
KeysOf(p) == IF p \in Short THEN {p, Junk} ELSE {p}

\* Mutant: a register that holds a key is not loaded again.
DeskeyOnce(t) ==
  /\ pc[t] = "idle" /\ instance
  /\ \E p \in Password : \E k \in KeysOf(p) :
       /\ password' = [password EXCEPT ![t] = p]
       /\ key' = [key EXCEPT ![t] = k]
  /\ todo' = [todo EXCEPT ![t] = {w \in Word : KnL[w] = None}]
  /\ used' = [used EXCEPT ![t] = {}]
  /\ meddled' = [meddled EXCEPT ![t] = {}]
  /\ block' = [block EXCEPT ![t] = 1]
  /\ Goto(t, "usekey")
  /\ UNCHANGED <<log_vars, KnL>>

\* The schedule of the key is worked out on the stack.
Deskey(t) ==
  /\ pc[t] = "idle" /\ instance
  /\ \E p \in Password : \E k \in KeysOf(p) :
       /\ password' = [password EXCEPT ![t] = p]
       /\ key' = [key EXCEPT ![t] = k]
  /\ todo' = [todo EXCEPT ![t] = Word]
  /\ used' = [used EXCEPT ![t] = {}]
  /\ meddled' = [meddled EXCEPT ![t] = {}]
  /\ block' = [block EXCEPT ![t] = 1]
  /\ Goto(t, "usekey")
  /\ UNCHANGED <<log_vars, KnL>>

\* usekey stores a word.
UseKey(t) ==
  /\ pc[t] = "usekey"
  /\ \E w \in todo[t] :
       /\ KnL' = [KnL EXCEPT ![w] = key[t]]
       /\ todo' = [todo EXCEPT ![t] = @ \ {w}]
  /\ meddled' = [u \in Thread |-> IF u # t /\ pc[u] \in Answering
                                  THEN meddled[u] \cup {key[t]} ELSE meddled[u]]
  /\ UNCHANGED <<log_vars, pc, password, key, block, used>>

UsedKey(t) ==
  /\ pc[t] = "usekey" /\ todo[t] = {}
  /\ todo' = [todo EXCEPT ![t] = Word]
  /\ Goto(t, "des")
  /\ UNCHANGED <<log_vars, KnL, password, key, block, used, meddled>>

\* desfunc loads a word.
Des(t) ==
  /\ pc[t] = "des"
  /\ \E w \in todo[t] :
       /\ used' = [used EXCEPT ![t] = @ \cup {KnL[w]}]
       /\ todo' = [todo EXCEPT ![t] = @ \ {w}]
  /\ UNCHANGED <<log_vars, pc, KnL, password, key, block, meddled>>

\* Mutant: a third block.
NextBlockLate(t) ==
  /\ pc[t] = "des" /\ todo[t] = {}
  /\ IF block[t] <= 2
     THEN /\ block' = [block EXCEPT ![t] = @ + 1]
          /\ todo' = [todo EXCEPT ![t] = Word]
          /\ UNCHANGED pc
     ELSE Goto(t, "idle") /\ UNCHANGED <<block, todo>>
  /\ UNCHANGED <<log_vars, KnL, password, key, used, meddled>>

\* The second block, or the response is sent.
NextBlock(t) ==
  /\ pc[t] = "des" /\ todo[t] = {}
  /\ IF block[t] = 1
     THEN /\ block' = [block EXCEPT ![t] = 2]
          /\ todo' = [todo EXCEPT ![t] = Word]
          /\ UNCHANGED pc
     ELSE Goto(t, "idle") /\ UNCHANGED <<block, todo>>
  /\ UNCHANGED <<log_vars, KnL, password, key, used, meddled>>

Next ==
  \E t \in Thread :
    \/ GetLogger(t) \/ Create(t) \/ Open(t) \/ Write(t)
    \/ Deskey(t) \/ UseKey(t) \/ UsedKey(t) \/ Des(t) \/ NextBlock(t)

Spec == Init /\ [][Next]_vars

-----------------------------------------------------------------------------

\* The log is lost for good only by two threads that create the logger at the same
\* time.  A thread that writes before the file is open loses what it writes and spoils
\* the file, but the open that follows mends it.
LogKept ==
  /\ instance /\ ~raced /\ (\A t \in Thread : pc[t] \notin Creating)
  => opened /\ good

\* A response is made with the key of its own password, all of it, unless the password
\* is short or another thread stored a different key while this one answered: neither
\* an earlier answer nor one under the same password can spoil it.
ResponseRight ==
  \A t \in Thread :
    /\ pc[t] = "idle" /\ password[t] \in Password \ Short
    /\ meddled[t] \subseteq {password[t]}
    => used[t] = {password[t]}

\* What makes LogKept inductive: without a race one thread creates, before it there is
\* no instance and no file, and after it there are both.
LogInv ==
  ~raced =>
    /\ \A t, u \in Thread : pc[t] \in Creating /\ pc[u] \in Creating => t = u
    /\ \A t \in Thread : pc[t] = "create" => ~instance
    /\ \A t \in Thread : pc[t] = "open" => instance /\ ~opened
    /\ ~instance => ~opened
    /\ instance /\ (\A t \in Thread : pc[t] \notin Creating) => opened /\ good

Own(t) == {key[t]} \cup meddled[t]

\* What makes ResponseRight inductive: a word that is stored is the thread's own or a
\* meddler's, and so is what was read.
DesInv ==
  \A t \in Thread :
    /\ password[t] \in Password \ Short => key[t] = password[t]
    /\ pc[t] = "usekey" => /\ \A w \in Word \ todo[t] : KnL[w] \in Own(t)
                           /\ used[t] = {} /\ block[t] = 1
    /\ pc[t] = "des" => /\ \A w \in Word : KnL[w] \in Own(t)
                        /\ used[t] = {} => block[t] = 1 /\ todo[t] = Word
    /\ used[t] \subseteq Own(t)
    /\ pc[t] \notin Answering /\ password[t] \in Password => used[t] # {}
    /\ pc[t] \in Answering => password[t] \in Password

=============================================================================
