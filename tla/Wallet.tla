------------------------------- MODULE Wallet -------------------------------
(***************************************************************************)
(* The in-memory account wallet of web3-eth-accounts                       *)
(* (src/packages/web3-eth-accounts/src/index.js, function Wallet).         *)
(*                                                                         *)
(* The wallet is a plain JavaScript object used as a map: an account is    *)
(* stored under three property names, its index, its checksummed address   *)
(* and its lower-case address, and `length` counts the accounts.  The      *)
(* model keeps exactly that object: `slot` maps every property name to the *)
(* account object stored there (or NONE), `objs` is the heap of account    *)
(* objects created by `add`, each with its key, the index it was given and *)
(* whether its `privateKey` field is still set.  `stored` is the           *)
(* localStorage entry written by `save` and read by `load`; it survives a  *)
(* page reload, the wallet does not.                                       *)
(*                                                                         *)
(* All wallet methods are synchronous, so each is one atomic step; a       *)
(* method that throws half way keeps the effects made before the throw.    *)
(***************************************************************************)
EXTENDS Naturals, Sequences, FiniteSets

CONSTANTS
    Keys,       \* private keys; an account is determined by its key
    MixedCase,  \* keys whose checksummed address differs from its lower case
    NONE,       \* an absent property / nothing in localStorage
    Passwords,  \* the passwords save and load are given
    MaxAdds     \* bound on account objects created between two reloads

ASSUME MixedCase \subseteq Keys
ASSUME MaxAdds \in Nat \ {0}

SX == INSTANCE SequencesExt

VARIABLES
    slot,    \* slot[name]: the account object stored under property `name`
    objs,    \* objs[o]: [key, index, hasKey] of account object o
    length,  \* this.length
    stored   \* localStorage[defaultKeyName]: a sequence of keystores, or NONE

vars == <<slot, objs, length, stored>>

(* Property names of the wallet object.  An index i is the name <<"ix",i>>;*)
(* the checksummed address of key k is <<"cs",k>> unless k's address has  *)
(* no upper-case letter, in which case it is the same string as the lower *)
(* case address <<"lc",k>>.                                               *)
Ix(i) == <<"ix", i>>
Indexes == 0 .. MaxAdds - 1
AddrName(k) == IF k \in MixedCase THEN <<"cs", k>> ELSE <<"lc", k>>
LowerName(k) == <<"lc", k>>
Names == {Ix(i) : i \in Indexes} \cup {AddrName(k) : k \in Keys}
                                  \cup {LowerName(k) : k \in Keys}

Obj == [key : Keys, index : Indexes, hasKey : BOOLEAN]

(* The wallet as one value, so that methods calling methods compose.      *)
W == [slot |-> slot, objs |-> objs, length |-> length]

EmptyWallet == [slot |-> [n \in Names |-> NONE], objs |-> << >>, length |-> 0]

(***************************************************************************)
(* Wallet.prototype.add with a private key (or an account object with a   *)
(* valid key): if no account is stored under the key's address, a fresh   *)
(* account object gets index `length` and is stored under its index and   *)
(* both address spellings; otherwise the stored account is returned and    *)
(* nothing changes.                                                        *)
(***************************************************************************)
(* Faulty variant: the new account's index one past length. *)
AddKeyOffByOne(w, k) ==
    IF w.slot[AddrName(k)] # NONE
    THEN w
    ELSE LET o == Len(w.objs) + 1
         IN [w EXCEPT
               !.objs = Append(@, [key |-> k, index |-> w.length + 1, hasKey |-> TRUE]),
               !.slot = [@ EXCEPT ![Ix(w.length + 1)] = o,
                                  ![AddrName(k)] = o,
                                  ![LowerName(k)] = o],
               !.length = @ + 1]

AddKey(w, k) ==
    IF w.slot[AddrName(k)] # NONE
    THEN w
    ELSE LET o == Len(w.objs) + 1
         IN [w EXCEPT
               !.objs = Append(@, [key |-> k, index |-> w.length, hasKey |-> TRUE]),
               !.slot = [@ EXCEPT ![Ix(w.length)] = o,
                                  ![AddrName(k)] = o,
                                  ![LowerName(k)] = o],
               !.length = @ + 1]

(***************************************************************************)
(* One statement pair of `remove`:  this[name].privateKey = null;          *)
(* delete this[name].  Reading a property that is absent throws a          *)
(* TypeError, which ends the call.  r = [wal, out], out \in {"true",       *)
(* "threw"}.                                                               *)
(***************************************************************************)
NullAndDelete(r, name) ==
    IF r.out = "threw" THEN r
    ELSE IF r.wal.slot[name] = NONE THEN [r EXCEPT !.out = "threw"]
    ELSE [r EXCEPT !.wal.objs[r.wal.slot[name]].hasKey = FALSE,
                   !.wal.slot[name] = NONE]

(* Faulty variants of remove, each a slip the properties must catch: one  *)
(* forgets the lower-case address, one decrements length before the       *)
(* deletes that may throw.                                                 *)
RemoveCallNoLower(w, x) ==
    IF w.slot[x] = NONE
    THEN [wal |-> w, out |-> "false"]
    ELSE LET acc == w.objs[w.slot[x]]
             r == SX!FoldLeft(NullAndDelete, [wal |-> w, out |-> "true"],
                      <<AddrName(acc.key), Ix(acc.index)>>)
         IN IF r.out = "threw" THEN r
            ELSE [r EXCEPT !.wal.length = @ - 1]

RemoveCallEarlyDecrement(w, x) ==
    IF w.slot[x] = NONE
    THEN [wal |-> w, out |-> "false"]
    ELSE LET acc == w.objs[w.slot[x]]
         IN SX!FoldLeft(NullAndDelete,
                [wal |-> [w EXCEPT !.length = @ - 1], out |-> "true"],
                <<AddrName(acc.key), LowerName(acc.key), Ix(acc.index)>>)

(***************************************************************************)
(* Wallet.prototype.remove(addressOrIndex): the account found under the    *)
(* argument is nulled and deleted under its address, its lower-case        *)
(* address and its own index, in that order, then length is decremented.  *)
(* Returns "false" when nothing is stored under the argument.              *)
(***************************************************************************)
RemoveCall(w, x) ==
    IF w.slot[x] = NONE
    THEN [wal |-> w, out |-> "false"]
    ELSE LET acc == w.objs[w.slot[x]]
             r == SX!FoldLeft(NullAndDelete, [wal |-> w, out |-> "true"],
                      <<AddrName(acc.key), LowerName(acc.key), Ix(acc.index)>>)
         IN IF r.out = "threw" THEN r
            ELSE [r EXCEPT !.wal.length = @ - 1]

(***************************************************************************)
(* Wallet.prototype.clear: remove(i) for every i below the length read on *)
(* entry; an exception from remove ends the loop.                          *)
(***************************************************************************)
ClearStep(r, i) ==
    IF r.out = "threw" THEN r
    ELSE LET s == RemoveCall(r.wal, Ix(i))
         IN [wal |-> s.wal, out |-> IF s.out = "threw" THEN "threw" ELSE "done"]

ClearCall(w) ==
    SX!FoldLeft(ClearStep, [wal |-> w, out |-> "done"],
                [j \in 1 .. w.length |-> j - 1])

(***************************************************************************)
(* Wallet.prototype.encrypt: this[i].encrypt(...) for i below length.  It  *)
(* throws when an index slot is empty (TypeError) or holds an account      *)
(* whose privateKey was nulled (privateKeyToAccount(null) throws).         *)
(***************************************************************************)
EncryptOk(w) ==
    \A i \in 0 .. w.length - 1 :
        w.slot[Ix(i)] # NONE /\ w.objs[w.slot[Ix(i)]].hasKey

(* The V3 keystore Accounts.prototype.encrypt returns: version 3, the kdf *)
(* of the options or scrypt, and a MAC that only the password it was      *)
(* made with reproduces (the mac field stands for that password).        *)
Keystore(k, pw) == [key |-> k, version |-> 3, kdf |-> "scrypt", mac |-> pw]

(* Faulty variant: the loop starts at index 1. *)
KeystoresSkipFirst(w, pw) == [j \in 1 .. w.length - 1 |-> Keystore(w.objs[w.slot[Ix(j)]].key, pw)]

(* Wallet.prototype.encrypt's array: the keystore of each index slot below *)
(* length, in index order.                                                 *)
Keystores(w, pw) == [j \in 1 .. w.length |-> Keystore(w.objs[w.slot[Ix(j - 1)]].key, pw)]

(* Accounts.prototype.decrypt: the key of a V3 keystore whose kdf is      *)
(* scrypt or pbkdf2 and whose MAC the password reproduces; NONE when it   *)
(* throws ('Not a valid V3 wallet', 'Unsupported key derivation scheme',  *)
(* 'Key derivation failed - possibly wrong password').                    *)
decrypt(ks, pw) ==
    IF ks.version = 3 /\ ks.kdf \in {"scrypt", "pbkdf2"} /\ ks.mac = pw
    THEN ks.key ELSE NONE

(* Wallet.prototype.decrypt: each keystore in turn is decrypted and its   *)
(* account passed to add; the first keystore that does not decrypt ends *)
(* the forEach with the exception, the accounts added before it stay.     *)
DecryptCall(w, keystores, pw) ==
    SX!FoldLeft(LAMBDA r, ks :
                    IF r.out = "threw" THEN r
                    ELSE IF decrypt(ks, pw) = NONE THEN [r EXCEPT !.out = "threw"]
                    ELSE [r EXCEPT !.wal = AddKey(r.wal, decrypt(ks, pw))],
                [wal |-> w, out |-> "done"], keystores).wal

SetWallet(w) == /\ slot' = w.slot
                /\ objs' = w.objs
                /\ length' = w.length

-----------------------------------------------------------------------------

Init ==
    /\ slot = EmptyWallet.slot
    /\ objs = EmptyWallet.objs
    /\ length = EmptyWallet.length
    /\ stored = NONE

(* add(privateKey), also each iteration of create(n). *)
Add(k) ==
    /\ Len(objs) < MaxAdds
    /\ slot[AddrName(k)] = NONE
    /\ SetWallet(AddKey(W, k))
    /\ UNCHANGED stored

(* remove(addressOrIndex) of a name under which an account is stored.    *)
Remove(x) ==
    /\ slot[x] # NONE
    /\ SetWallet(RemoveCall(W, x).wal)
    /\ UNCHANGED stored

Clear ==
    /\ SetWallet(ClearCall(W).wal)
    /\ UNCHANGED stored

(* save(password): localStorage.setItem(key, JSON.stringify(encrypt())).  *)
(* When encrypt throws nothing is written and nothing changes.            *)
Save(pw) ==
    /\ EncryptOk(W)
    /\ stored' = Keystores(W, pw)
    /\ UNCHANGED <<slot, objs, length>>

(* load(password): decrypt(keystores) adds each decrypted account; with   *)
(* a wrong password it throws at the first keystore.                      *)
Load(pw) ==
    /\ stored # NONE
    /\ Len(objs) + Len(stored) <= MaxAdds
    /\ SetWallet(DecryptCall(W, stored, pw))
    /\ UNCHANGED stored

(* A page reload: the in-memory wallet is gone, localStorage is kept.     *)
Reload ==
    /\ objs # << >>
    /\ SetWallet(EmptyWallet)
    /\ UNCHANGED stored

Next ==
    \/ \E k \in Keys : Add(k)
    \/ \E x \in Names : Remove(x)
    \/ Clear
    \/ \E pw \in Passwords : Save(pw) \/ Load(pw)
    \/ Reload

Spec == Init /\ [][Next]_vars

-----------------------------------------------------------------------------

TypeOK ==
    /\ objs \in Seq(Obj) /\ Len(objs) <= MaxAdds
    /\ slot \in [Names -> (1 .. Len(objs)) \cup {NONE}]
    /\ length \in 0 .. MaxAdds
    /\ stored \in Seq([key : Keys, version : {3}, kdf : {"scrypt"}, mac : Passwords]) \cup {NONE}

(* The index slots that hold an account. *)
IndexSlotsUsed == {i \in Indexes : slot[Ix(i)] # NONE}

(***************************************************************************)
(* remove deletes an account under both address spellings or under         *)
(* neither: a lookup by checksummed address and by lower-case address     *)
(* (add stores both, remove deletes both before it can throw on the index *)
(* slot) always find the same account.                                     *)
(***************************************************************************)
AddressEntriesAgree ==
    \A k \in Keys : slot[AddrName(k)] = slot[LowerName(k)]

(***************************************************************************)
(* `length` is decremented only by a remove that deleted an index slot,   *)
(* so it never falls below the number of index slots in use, even when    *)
(* remove throws half way (the decrement is its last statement) and when  *)
(* add overwrites an occupied slot.                                        *)
(***************************************************************************)
LengthCoversIndexSlots ==
    length >= Cardinality(IndexSlotsUsed)

(* An account the wallet holds: one stored under some property name. *)
Held == {slot[n] : n \in {m \in Names : slot[m] # NONE}}

(***************************************************************************)
(* Every account the wallet hands out (wallet[address], wallet[index])     *)
(* still has its private key: remove only nulls the key of the account it *)
(* removes.  The code breaks it: remove nulls this[account.index], which   *)
(* a later add may have filled with another account.                      *)
(***************************************************************************)
HeldAccountsHaveKeys ==
    \A o \in Held : objs[o].hasKey

(***************************************************************************)
(* A remove that finds an account takes it out of the wallet: afterwards   *)
(* the account is stored under no property name.  For an address with no *)
(* upper-case letter the code deletes the one address property, then reads *)
(* the same (now deleted) property as the lower-case spelling and throws,  *)
(* leaving the keyless account in its index slot.                          *)
(***************************************************************************)
RemovedAccountIsGone ==
    [][\A x \in Names :
         Remove(x) => \A n \in Names : slot'[n] # slot[x]]_vars

(***************************************************************************)
(* clear "securely empties the wallet and removes all its accounts" (the   *)
(* web3.js 1.0 documentation that the comment above Wallet follows): a     *)
(* clear that returns leaves no account in the wallet.  The code loops     *)
(* over the indexes below `length`, which after a remove no longer cover   *)
(* the indexes in use.                                                     *)
(***************************************************************************)
ClearEmptiesWallet ==
    [][Clear /\ ClearCall(W).out = "done" => Held' = {}]_vars


(* The keys of the accounts the wallet holds with their private key. *)
HeldKeys == {objs[o].key : o \in {h \in Held : objs[h].hasKey}}

(***************************************************************************)
(* A save that succeeds writes a keystore for every account the wallet     *)
(* holds with its key, so that a reload followed by load restores it; the  *)
(* keystores are taken from the index slots below length, the accounts    *)
(* from every property.                                                    *)
(***************************************************************************)
SaveCoversHeldAccounts ==
    [][\A pw \in Passwords : Save(pw) => HeldKeys \subseteq {stored'[i].key : i \in DOMAIN stored'}]_vars

(***************************************************************************)
(* A wallet whose accounts all have their keys can be saved: encrypt does  *)
(* not throw.  After remove(0) the index slot 0 is empty but below length, *)
(* and encrypt reads this[0].encrypt.                                      *)
(***************************************************************************)
SavePossible ==
    (\A o \in Held : objs[o].hasKey) => EncryptOk(W)


=============================================================================
