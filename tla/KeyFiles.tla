------------------------------ MODULE KeyFiles ------------------------------
(***************************************************************************)
(* Ed25519KeyGenerator.generate (setup/keys.py): setup windows create SSH  *)
(* keys at one path, each through an ssh-keygen of its own that asks for   *)
(* the passphrase in a pseudoconsole.  A key is two files, which appear    *)
(* and disappear one after the other.                                      *)
(*                                                                         *)
(* ssh-keygen is external: it asks before it overwrites a private key that *)
(* is there when it starts, asks twice for the passphrase and then writes  *)
(* the private and the public file, whatever is there by now.              *)
(***************************************************************************)
EXTENDS Naturals

CONSTANTS Windows,          \* setup windows that generate a key at the path
          MaxGenerations,   \* bound: generations of a window
          MaxKeyFaults,     \* bound: failing calls of the system and kills
          NoKey,            \* no file
          Theirs            \* a file that was there before

ASSUME KeyBounds == MaxGenerations \in Nat /\ MaxKeyFaults \in Nat
ASSUME KeyNames == /\ NoKey # Theirs
                   /\ Windows \intersect {NoKey, Theirs, "nothing", "failed", "exists"} = {}

VARIABLES private, public,  \* whose file is there
          kpc,              \* where each window stands
          keygen,           \* where its ssh-keygen stands
          generations,      \* its calls of generate so far
          told,             \* what its last call returned: a public key, or an exception
          disturbed,        \* ghost: another call overlapped it, or its cleanup failed
          keyFaults

keyVars == <<private, public, kpc, keygen, generations, told, disturbed, keyFaults>>
keyFiles == <<private, public>>

KPc == {"idle", "prepare", "first", "second", "wait", "secure", "unlink", "unlink public",
        "close", "killed"}
Keygen == {"none", "starting", "overwrite?", "passphrase?", "again?", "saving", "saving public",
           "succeeded", "exited"}
Resting == {"idle", "killed"}

KGoes(w, from, to) == kpc[w] = from /\ kpc' = [kpc EXCEPT ![w] = to]
Asks(w, from, to) == keygen[w] = from /\ keygen' = [keygen EXCEPT ![w] = to]
KeyFault == keyFaults < MaxKeyFaults /\ keyFaults' = keyFaults + 1

---------------------------------------------------------------------------
(* A mutant: only the private file is looked for. *)
Free_private == private = NoKey

Free == private = NoKey /\ public = NoKey

(* generate: a path that is taken, by either file, is refused. *)
Generate(w) ==
    /\ kpc[w] = "idle" /\ generations[w] < MaxGenerations
    /\ generations' = [generations EXCEPT ![w] = @ + 1]
    /\ IF Free
       THEN /\ kpc' = [kpc EXCEPT ![w] = "prepare"] /\ told' = [told EXCEPT ![w] = "nothing"]
            /\ LET others == {v \in Windows \ {w} : kpc[v] \notin Resting} IN
               disturbed' = [v \in Windows |->
                               IF v = w THEN others # {} ELSE disturbed[v] \/ v \in others]
       ELSE told' = [told EXCEPT ![w] = "exists"] /\ UNCHANGED <<kpc, disturbed>>
    /\ UNCHANGED <<keyFiles, keygen, keyFaults>>

(* The directory is secured, which may raise, and the terminal started. *)
StartKeygen(w) ==
    /\ \/ /\ KGoes(w, "prepare", "first") /\ keygen' = [keygen EXCEPT ![w] = "starting"]
          /\ UNCHANGED <<told, keyFaults>>
       \/ KeyFault /\ KGoes(w, "prepare", "idle") /\ told' = [told EXCEPT ![w] = "failed"]
          /\ UNCHANGED keygen
       \/ KeyFault /\ KGoes(w, "prepare", "unlink") /\ UNCHANGED <<keygen, told>>
    /\ UNCHANGED <<keyFiles, generations, disturbed>>

(* _answer_prompt: the marker was seen, and the passphrase is typed. *)
AnswerFirst(w) ==
    /\ KGoes(w, "first", "second") /\ Asks(w, "passphrase?", "again?")
    /\ UNCHANGED <<keyFiles, generations, told, disturbed, keyFaults>>

AnswerSecond(w) ==
    /\ KGoes(w, "second", "wait") /\ Asks(w, "again?", "saving")
    /\ UNCHANGED <<keyFiles, generations, told, disturbed, keyFaults>>

(* The marker did not come in time, or ssh-keygen ended before it. *)
NoPrompt(w) ==
    /\ KGoes(w, "first", "unlink") \/ KGoes(w, "second", "unlink")
    /\ UNCHANGED <<keyFiles, keygen, generations, told, disturbed, keyFaults>>

(* terminal.wait: ssh-keygen ended, or is terminated after the timeout. *)
KeygenEnded(w) ==
    /\ keygen[w] \in {"succeeded", "exited"}
    /\ KGoes(w, "wait", IF keygen[w] = "succeeded" /\ private # NoKey /\ public # NoKey
                        THEN "secure" ELSE "unlink")
    /\ UNCHANGED <<keyFiles, keygen, generations, told, disturbed, keyFaults>>

WaitTimesOut(w) ==
    /\ KGoes(w, "wait", "unlink")
    /\ \/ /\ keygen' = [keygen EXCEPT ![w] = "exited"] /\ UNCHANGED <<disturbed, keyFaults>>
       \/ /\ KeyFault /\ disturbed' = [disturbed EXCEPT ![w] = TRUE] /\ UNCHANGED keygen
    /\ UNCHANGED <<keyFiles, generations, told>>

(* Both files are secured and the public one is read; it may be gone. *)
SecureKey(w) ==
    /\ \/ /\ public # NoKey /\ private # NoKey /\ KGoes(w, "secure", "idle")
          /\ told' = [told EXCEPT ![w] = public] /\ UNCHANGED keyFaults
       \/ /\ public = NoKey \/ private = NoKey
          /\ KGoes(w, "secure", "unlink") /\ UNCHANGED <<told, keyFaults>>
       \/ KeyFault /\ KGoes(w, "secure", "unlink") /\ UNCHANGED told
    /\ keygen' = [keygen EXCEPT ![w] = IF kpc'[w] = "idle" THEN "none" ELSE @]
    /\ UNCHANGED <<keyFiles, generations, disturbed>>

---------------------------------------------------------------------------
(* The except and finally blocks: the files go, then the terminal. *)
CleanupFails(w) == KeyFault /\ disturbed' = [disturbed EXCEPT ![w] = TRUE]

Unlink(w) ==
    /\ \/ KGoes(w, "unlink", "unlink public") /\ private' = NoKey /\ UNCHANGED <<disturbed, keyFaults>>
       \/ KGoes(w, "unlink", "close") /\ CleanupFails(w) /\ UNCHANGED private
    /\ UNCHANGED <<public, keygen, generations, told>>

UnlinkPublic(w) ==
    /\ KGoes(w, "unlink public", "close")
    /\ \/ public' = NoKey /\ UNCHANGED <<disturbed, keyFaults>>
       \/ CleanupFails(w) /\ UNCHANGED public
    /\ UNCHANGED <<private, keygen, generations, told>>

CloseKeygen(w) ==
    /\ KGoes(w, "close", "idle") /\ keygen' = [keygen EXCEPT ![w] = "none"]
    /\ told' = [told EXCEPT ![w] = "failed"]
    /\ UNCHANGED <<keyFiles, generations, disturbed, keyFaults>>

---------------------------------------------------------------------------
(* ssh-keygen -t ed25519 -f path. *)
KeygenStarts(w) ==
    /\ Asks(w, "starting", IF private = NoKey THEN "passphrase?" ELSE "overwrite?")
    /\ UNCHANGED <<keyFiles, kpc, generations, told, disturbed, keyFaults>>

KeygenSaves(w) ==
    /\ \/ Asks(w, "saving", "saving public") /\ private' = w /\ UNCHANGED public
       \/ Asks(w, "saving public", "succeeded") /\ public' = w /\ UNCHANGED private
    /\ UNCHANGED <<kpc, generations, told, disturbed, keyFaults>>

KeygenExits(w) ==
    /\ keygen[w] \notin {"none", "succeeded", "exited"}
    /\ KeyFault /\ keygen' = [keygen EXCEPT ![w] = "exited"]
    /\ UNCHANGED <<keyFiles, kpc, generations, told, disturbed>>

(* The setup process is killed; its pseudoconsole ends ssh-keygen. *)
KillWindow(w) ==
    /\ kpc[w] \notin Resting /\ KeyFault
    /\ kpc' = [kpc EXCEPT ![w] = "killed"] /\ keygen' = [keygen EXCEPT ![w] = "none"]
    /\ UNCHANGED <<keyFiles, generations, told, disturbed>>

InitKeys ==
    /\ private \in {NoKey, Theirs} /\ public \in {NoKey, Theirs}
    /\ kpc = [w \in Windows |-> "idle"] /\ keygen = [w \in Windows |-> "none"]
    /\ generations = [w \in Windows |-> 0] /\ told = [w \in Windows |-> "nothing"]
    /\ disturbed = [w \in Windows |-> FALSE] /\ keyFaults = 0

KeysNext == \E w \in Windows :
    \/ Generate(w) \/ StartKeygen(w) \/ AnswerFirst(w) \/ AnswerSecond(w) \/ NoPrompt(w)
    \/ KeygenEnded(w) \/ WaitTimesOut(w) \/ SecureKey(w)
    \/ Unlink(w) \/ UnlinkPublic(w) \/ CloseKeygen(w)
    \/ KeygenStarts(w) \/ KeygenSaves(w) \/ KeygenExits(w) \/ KillWindow(w)

KeysSpec == InitKeys /\ [][KeysNext]_keyVars

---------------------------------------------------------------------------
KeysTypeOK ==
    /\ {private, public} \subseteq Windows \union {NoKey, Theirs}
    /\ kpc \in [Windows -> KPc] /\ keygen \in [Windows -> Keygen]
    /\ generations \in [Windows -> 0..MaxGenerations]
    /\ disturbed \in [Windows -> BOOLEAN] /\ keyFaults \in 0..MaxKeyFaults

(* "no-overwrite key generation" (docs/setup-assistant.md), wherever a call *)
(* is interrupted: files that were there before are never replaced or       *)
(* removed; and of a call that no other call overlapped and whose cleanup   *)
(* did not fail, success means that both files are its own, of which the    *)
(* public key it returns is one, and they stay; failure leaves neither.     *)
KeyFilesAreKept ==
    [][/\ private = Theirs => private' = Theirs
       /\ public = Theirs => public' = Theirs
       /\ \A w \in Windows : ~disturbed'[w] =>
            /\ told'[w] = w => private' = w /\ public' = w
            /\ kpc[w] \notin Resting /\ kpc'[w] = "idle" =>
                 \/ told'[w] = w
                 \/ told'[w] = "failed" /\ private' = NoKey /\ public' = NoKey]_keyVars
=============================================================================
