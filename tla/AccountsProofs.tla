---------------------------- MODULE AccountsProofs ----------------------------
(***************************************************************************)
(* Proofs about the accounts, their credentials and their books, for any   *)
(* number of names, credentials, ids, kills and outages of the keyring.    *)
(*                                                                         *)
(* The properties speak of auth.json as it is; the invariant says of the   *)
(* writes a command has left that the file among them is a good one when   *)
(* its turn comes (AuthGood), that no secret before it is one that the     *)
(* file of now still needs (Safe), and that the moves are of books that    *)
(* are still where they were (MoveFrame).  A kill then takes nothing away  *)
(* that the invariant needs.  One lemma per write says that it is kept     *)
(* (SecretKeeps ...), one per command that its list of writes is such a    *)
(* list (LoginReady ...), and StartKeeps that the writes that change       *)
(* nothing may be left out of it.                                          *)
(***************************************************************************)
EXTENDS Accounts, Lemmas

----------------------------------------------------------------------------
(* Types. *)

(* An account, and what auth.json holds. *)
Keys == [Range(Parts) -> Values]
Refs == {OwnerOf[c] : c \in Creds}
Account == [name : Names, id : 0..MaxIds, ref : Refs \cup {None}, keys : Keys]

File ==
    [exists : BOOLEAN, backend : {"file", "keyring"}, active : Names \cup {None},
     accounts : Seq(Account)]

(* The writes of a command. *)
SecretWrites == [op : {"secret"}, name : Names, part : Range(Parts), value : Values]
AuthWrites == [op : {"auth"}, file : File]
MoveWrites == [op : {"move"}, book : BookFiles, scope : Scopes]
BookWrites == [op : {"book"}, book : BookFiles, scope : Scopes]

Writes == SecretWrites \cup AuthWrites \cup MoveWrites \cup BookWrites

(* What a command carries with it until its last write. *)
CommandType(c) ==
    /\ c.kind \in {"idle", "login", "logout", "use", "rename", "run"}
    /\ c.kind \in {"login", "logout", "rename"} => c.name \in Names
    /\ c.kind = "rename" => c.new \in Names
    /\ c.kind = "login" =>
          c.keys \in Keys /\ c.id \in 1..MaxIds /\ c.ref \in Refs \cup {None} /\ c.force \in BOOLEAN

----------------------------------------------------------------------------
(* The invariant. *)

(* No two accounts share a name, or an id. *)
Distinct(accounts) ==
    \A i, j \in DOMAIN accounts : i # j =>
        /\ accounts[i].name # accounts[j].name
        /\ accounts[i].id = accounts[j].id => accounts[i].id = NoId

(* The active account is one of them. *)
ActiveIs(accounts, active) ==
    IF accounts = <<>> THEN active = None
    ELSE \E i \in DOMAIN accounts : accounts[i].name = active

(* A file of ids minted up to m. *)
SoundFile(f, m) ==
    /\ f \in File
    /\ Distinct(f.accounts) /\ ActiveIs(f.accounts, f.active)
    /\ \A i \in DOMAIN f.accounts : f.accounts[i].id <= m
    /\ ~f.exists => f.accounts = <<>>

(* The types, and a file that is sound. *)
Base ==
    /\ SoundFile(auth, minted)
    /\ keyring \in [Names -> Keys] /\ given \in [Names -> Keys \cup {Unknown}]
    /\ available \in BOOLEAN
    /\ root \subseteq BookFiles
    /\ dirs \in [Scopes -> [BookFiles -> {None, "own", "legacy"}]]
    /\ minted \in 0..MaxIds
    /\ owners \in [1..MaxIds -> SUBSET (Refs \ {None})]
    /\ kills \in 0..MaxKills /\ outages \in 0..MaxFaults
    /\ CommandType(cmd)
    /\ todo \in Seq(Writes)
    /\ cmd = NoCommand => todo = <<>>

(* Every account reads back what it was given. *)
Known ==
    \A i \in DOMAIN auth.accounts :
        given[auth.accounts[i].name] # Unknown =>
            KeysOf(auth.accounts[i], auth.backend) = given[auth.accounts[i].name]

(* The proven owners of an id are what its account stores; an id that no
   account has has none. *)
OwnersMatch(accounts, own) ==
    /\ \A i \in DOMAIN accounts : accounts[i].id # NoId => own[accounts[i].id] \subseteq {accounts[i].ref}
    /\ \A n \in 1..MaxIds : (\A i \in DOMAIN accounts : accounts[i].id # n) => own[n] = {}

(* GivenAfter and OwnersAfter, for any command and file. *)
GivenFor(c, f) ==
    IF auth.exists /\ f.backend # auth.backend THEN [n \in Names |-> Unknown]
    ELSE CASE c.kind = "login" -> [given EXCEPT ![c.name] = c.keys]
           [] c.kind = "rename" ->
                 [[given EXCEPT ![c.name] = Unknown] EXCEPT ![c.new] = given[c.name]]
           [] OTHER -> given

OwnersFor(c, f) ==
    CASE c.kind = "login" /\ c.ref # None ->
            [owners EXCEPT ![c.id] = IF c.force THEN {c.ref} ELSE @ \cup {c.ref}]
      [] c.kind = "logout" ->
            [i \in DOMAIN owners |->
                IF \E e \in Range(f.accounts) : e.id = i THEN owners[i] ELSE {}]
      [] OTHER -> owners

(* Before write k, keyring kr holds v under n or is going to. *)
Settles(kr, W, k, n, v) ==
    \A p \in Range(Parts) :
        /\ \A i \in 1..(k - 1) :
              W[i].op = "secret" /\ W[i].name = n /\ W[i].part = p => W[i].value = v[p]
        /\ \/ kr[n][p] = v[p]
           \/ \E i \in 1..(k - 1) : W[i].op = "secret" /\ W[i].name = n /\ W[i].part = p

(* What BookNeverStranded says of the write of file f. *)
KeepsIds(c, f) ==
    \A i \in DOMAIN auth.accounts :
        \/ auth.accounts[i].id = NoId
        \/ \E j \in DOMAIN f.accounts :
              /\ f.accounts[j].id = auth.accounts[i].id
              /\ f.accounts[j].name =
                    IF c.kind = "rename" /\ auth.accounts[i].name = c.name THEN c.new
                    ELSE auth.accounts[i].name
        \/ c.kind = "logout" /\ c.name = auth.accounts[i].name

(* With write k, every account reads back what command c leaves it with. *)
Restores(W, k, c) ==
    LET f == W[k].file
    IN  \A i \in DOMAIN f.accounts :
           LET n == f.accounts[i].name
               v == GivenFor(c, f)[n]
           IN  v # Unknown =>
                  IF f.backend = "keyring" THEN Settles(keyring, W, k, n, v) ELSE f.accounts[i].keys = v

(* The auth.json command c is going to write with write k. *)
AuthGood(W, k, c, m) ==
    LET f == W[k].file
    IN  /\ SoundFile(f, m) /\ f.exists
        /\ Restores(W, k, c)
        /\ KeepsIds(c, f)
        /\ OwnersMatch(f.accounts, OwnersFor(c, f))

(* A secret is written under a name that is not in auth.json, or of the account
   that is being logged into or out of. *)
Safe(c, n) == (c.kind \in {"login", "logout"} /\ c.name = n) \/ n \notin NamesIn(auth.accounts)

(* Write i is safe when its turn comes: the file may have been replaced by then. *)
SafeAt(W, i, c) ==
    /\ (\A j \in 1..(i - 1) : W[j].op # "auth") => Safe(c, W[i].name)
    /\ \A j \in 1..(i - 1) : W[j].op = "auth" => W[i].name \notin NamesIn(W[j].file.accounts)

AllSafe(W, c) == \A i \in DOMAIN W : W[i].op = "secret" => SafeAt(W, i, c)

(* auth.json is written once. *)
AuthFrame(W, c, m) ==
    /\ \A k \in DOMAIN W : W[k].op = "auth" => AuthGood(W, k, c, m)
    /\ \A j, k \in DOMAIN W : W[j].op = "auth" /\ W[k].op = "auth" => j = k

(* Books are moved from the root to one scope, each once, and before the
   command writes to any. *)
MoveFrame(W) ==
    /\ \A i \in DOMAIN W : W[i].op = "move" => W[i].book \in root /\ dirs[W[i].scope][W[i].book] = None
    /\ \A i, j \in DOMAIN W : W[i].op = "move" /\ W[j].op = "move" =>
          W[i].scope = W[j].scope /\ (W[i].book = W[j].book => i = j)
    /\ \A i, j \in DOMAIN W : W[i].op = "move" /\ W[j].op = "book" => i < j

(* What is left to write. *)
TodoFrame(W, c, m) == AuthFrame(W, c, m) /\ AllSafe(W, c) /\ MoveFrame(W)

(* A legacy book is at the root or in a scope. *)
RootFrame == \A b \in root, s \in Scopes : dirs[s][b] # "legacy"

(* Book b is about to be moved to scope s. *)
Pending(W, b, s) ==
    \E i \in DOMAIN W : W[i].op = "move" /\ W[i].book = b /\ W[i].scope = s

(* The scopes hold no books of their own; no legacy books; none but in scope s. *)
NoOwn == \A s \in Scopes, b \in BookFiles : dirs[s][b] # "own"
NoLegacy == \A s \in Scopes, b \in BookFiles : dirs[s][b] # "legacy"
LegacyAt(s) == \A t \in Scopes, b \in BookFiles : dirs[t][b] = "legacy" => t = s

(* All legacy books are, or are about to be, in one scope. *)
Gathered == NoLegacy \/ \E s \in Scopes : LegacyAt(s) /\ \A b \in root : Pending(todo, b, s)

(* A command that moves one book moves all. *)
AllMove ==
    \A i \in DOMAIN todo : todo[i].op = "move" => \A b \in root : Pending(todo, b, todo[i].scope)

(* Without kills all legacy books go where the first one went. *)
Together == (kills = 0 /\ NoOwn) => Gathered /\ AllMove

(* The inductive invariant. *)
AccountsInv ==
    /\ Base /\ Known /\ OwnersMatch(auth.accounts, owners)
    /\ TodoFrame(todo, cmd, minted)
    /\ RootFrame /\ Together

----------------------------------------------------------------------------
(* Writes. *)

(* The parts of the credentials. *)
LEMMA PartsAre ==
    /\ Len(Parts) = 2 /\ DOMAIN Parts = 1..2
    /\ Parts[1] = "key" /\ Parts[2] = "secret"
    /\ Range(Parts) = {"key", "secret"}
  <1>1. Len(Parts) = 2 /\ DOMAIN Parts = 1..2 /\ Parts[1] = "key" /\ Parts[2] = "secret"
    BY DEF Parts
  <1>2. \A p : (\E i \in 1..2 : Parts[i] = p) <=> p \in {"key", "secret"}
    BY <1>1
  <1>3. Range(Parts) = {"key", "secret"}
    BY <1>1, <1>2 DEF Range
  <1> QED
    BY <1>1, <1>3

(* A write is of the kind its op says. *)
LEMMA WriteKinds ==
    ASSUME NEW w \in Writes
    PROVE  /\ w.op = "secret" => w.name \in Names /\ w.part \in Range(Parts) /\ w.value \in Values
           /\ w.op = "auth" => w.file \in File
           /\ w.op \in {"move", "book"} => w.book \in BookFiles /\ w.scope \in Scopes
           /\ w.op \in {"secret", "auth", "move", "book"}
  BY DEF Writes, SecretWrites, AuthWrites, MoveWrites, BookWrites

(* The writes that are left when the first is done. *)
LEMMA RestOfWrites ==
    ASSUME NEW W \in Seq(Writes), W # <<>>
    PROVE  /\ Len(W) \in Nat /\ DOMAIN W = 1..Len(W) /\ 1 \in DOMAIN W
           /\ \A i \in DOMAIN W : W[i] \in Writes
           /\ Tail(W) \in Seq(Writes)
           /\ DOMAIN Tail(W) = 1..(Len(W) - 1)
           /\ \A i \in DOMAIN Tail(W) : i + 1 \in DOMAIN W /\ Tail(W)[i] = W[i + 1] /\ i \in Nat
           /\ \A i \in DOMAIN W : i # 1 => i - 1 \in DOMAIN Tail(W) /\ Tail(W)[i - 1] = W[i]
  <1>1. Len(W) \in Nat /\ DOMAIN W = 1..Len(W) /\ Len(W) # 0
    OBVIOUS
  <1>2. Tail(W) \in Seq(Writes) /\ Len(Tail(W)) = Len(W) - 1
    OBVIOUS
  <1>3. \A i \in 1..(Len(W) - 1) : Tail(W)[i] = W[i + 1]
    OBVIOUS
  <1>4. DOMAIN Tail(W) = 1..(Len(W) - 1)
    BY <1>2
  <1>5. \A i \in DOMAIN W : W[i] \in Writes
    OBVIOUS
  <1>6. \A i \in DOMAIN Tail(W) : i + 1 \in DOMAIN W /\ Tail(W)[i] = W[i + 1] /\ i \in Nat
    BY <1>1, <1>3, <1>4
  <1>7. ASSUME NEW i \in DOMAIN W, i # 1
        PROVE  i - 1 \in DOMAIN Tail(W) /\ Tail(W)[i - 1] = W[i]
    <2> DEFINE j == i - 1
    <2>1. j \in 1..(Len(W) - 1) /\ j + 1 = i
      BY <1>1, <1>7
    <2> HIDE DEF j
    <2>2. Tail(W)[j] = W[i]
      BY <1>3, <2>1
    <2> QED
      BY <1>4, <2>1, <2>2 DEF j
  <1> QED
    BY <1>1, <1>2, <1>4, <1>5, <1>6, <1>7

(* What each step that writes does with the command. *)
LEMMA StepOn ==
    ASSUME Base, todo # <<>>, Advance
    PROVE  /\ todo' = Tail(todo) /\ todo' \in Seq(Writes)
           /\ CommandType(cmd') /\ (cmd' = NoCommand => todo' = <<>>)
           /\ todo' # <<>> => cmd' = cmd
           /\ minted' = minted /\ kills' = kills /\ outages' = outages /\ available' = available
  <1>1. todo \in Seq(Writes) /\ CommandType(cmd) /\ cmd # NoCommand
    BY DEF Base
  <1>2. Tail(todo) \in Seq(Writes)
    BY <1>1
  <1>3. CommandType(NoCommand)
    BY DEF CommandType, NoCommand
  <1>4. CommandType(cmd')
    BY <1>1, <1>3 DEF Advance
  <1> QED
    BY <1>1, <1>2, <1>4 DEF Advance, boundVars

(* What is known of the credentials stays a function of the names. *)
LEMMA GivenForType ==
    ASSUME Base, NEW c, CommandType(c), NEW f
    PROVE  GivenFor(c, f) \in [Names -> Keys \cup {Unknown}]
  <1>1. given \in [Names -> Keys \cup {Unknown}]
    BY DEF Base
  <1>2. CASE auth.exists /\ f.backend # auth.backend
    <2>1. GivenFor(c, f) = [n \in Names |-> Unknown]
      BY <1>2 DEF GivenFor
    <2>2. [n \in Names |-> Unknown] \in [Names -> Keys \cup {Unknown}]
      OBVIOUS
    <2> QED
      BY <2>1, <2>2
  <1>3. CASE ~(auth.exists /\ f.backend # auth.backend) /\ c.kind = "login"
    <2>1. c.keys \in Keys /\ c.name \in Names
      BY <1>3 DEF CommandType
    <2>2. GivenFor(c, f) = [given EXCEPT ![c.name] = c.keys]
      BY <1>3 DEF GivenFor
    <2> QED
      BY <1>1, <2>1, <2>2
  <1>4. CASE ~(auth.exists /\ f.backend # auth.backend) /\ c.kind = "rename"
    <2>1. c.name \in Names /\ c.new \in Names
      BY <1>4 DEF CommandType
    <2>2. GivenFor(c, f) = [[given EXCEPT ![c.name] = Unknown] EXCEPT ![c.new] = given[c.name]]
      BY <1>4 DEF GivenFor
    <2> QED
      BY <1>1, <2>1, <2>2
  <1>5. CASE ~(auth.exists /\ f.backend # auth.backend) /\ c.kind \notin {"login", "rename"}
    BY <1>1, <1>5 DEF GivenFor
  <1> QED
    BY <1>2, <1>3, <1>4, <1>5

----------------------------------------------------------------------------
(* One write less to do. *)

(* The moves that are left when a write that touches no book is done. *)
LEMMA MovesRest ==
    ASSUME todo \in Seq(Writes), todo # <<>>, todo' = Tail(todo),
           root' = root, dirs' = dirs, MoveFrame(todo)
    PROVE  MoveFrame(todo)'
  <1> DEFINE W == todo
             V == Tail(todo)
  <1>1. \A i \in DOMAIN V : i + 1 \in DOMAIN W /\ V[i] = W[i + 1] /\ i \in Nat
    BY RestOfWrites
  <1>2. /\ \A i \in DOMAIN W : W[i].op = "move" => W[i].book \in root /\ dirs[W[i].scope][W[i].book] = None
        /\ \A i, j \in DOMAIN W : W[i].op = "move" /\ W[j].op = "move" =>
              W[i].scope = W[j].scope /\ (W[i].book = W[j].book => i = j)
        /\ \A i, j \in DOMAIN W : W[i].op = "move" /\ W[j].op = "book" => i < j
    BY DEF MoveFrame
  <1> HIDE DEF W, V
  <1>3. \A i \in DOMAIN V : V[i].op = "move" => V[i].book \in root /\ dirs[V[i].scope][V[i].book] = None
    BY <1>1, <1>2
  <1>4. ASSUME NEW i \in DOMAIN V, NEW j \in DOMAIN V, V[i].op = "move", V[j].op = "move"
        PROVE  V[i].scope = V[j].scope /\ (V[i].book = V[j].book => i = j)
    <2>1. /\ i + 1 \in DOMAIN W /\ j + 1 \in DOMAIN W /\ W[i + 1] = V[i] /\ W[j + 1] = V[j]
          /\ i \in Nat /\ j \in Nat
      BY <1>1
    <2>2. W[i + 1].scope = W[j + 1].scope /\ (W[i + 1].book = W[j + 1].book => i + 1 = j + 1)
      BY <1>2, <1>4, <2>1
    <2> QED
      BY <2>1, <2>2
  <1>5. ASSUME NEW i \in DOMAIN V, NEW j \in DOMAIN V, V[i].op = "move", V[j].op = "book"
        PROVE  i < j
    <2>1. /\ i + 1 \in DOMAIN W /\ j + 1 \in DOMAIN W /\ W[i + 1] = V[i] /\ W[j + 1] = V[j]
          /\ i \in Nat /\ j \in Nat
      BY <1>1
    <2>2. i + 1 < j + 1
      BY <1>2, <1>5, <2>1
    <2> QED
      BY <2>1, <2>2
  <1>6. todo' = V
    BY DEF V
  <1> QED
    BY <1>3, <1>4, <1>5, <1>6 DEF MoveFrame

(* ... and what is said of where they lead. *)
LEMMA TogetherRest ==
    ASSUME todo \in Seq(Writes), todo # <<>>, todo' = Tail(todo), todo[1].op # "move",
           root' = root, dirs' = dirs, kills' = kills, Together
    PROVE  Together'
  <1> DEFINE V == Tail(todo)
  <1>1. /\ \A i \in DOMAIN V : i + 1 \in DOMAIN todo /\ V[i] = todo[i + 1] /\ i \in Nat
        /\ \A i \in DOMAIN todo : i # 1 => i - 1 \in DOMAIN V /\ V[i - 1] = todo[i]
    BY RestOfWrites
  <1> HIDE DEF V
  <1>2. ASSUME NEW b, NEW s, Pending(todo, b, s)
        PROVE  Pending(V, b, s)
    BY <1>1, <1>2 DEF Pending
  <1>3. todo' = V
    BY DEF V
  <1>4. NoOwn' = NoOwn /\ NoLegacy' = NoLegacy
    BY DEF NoOwn, NoLegacy
  <1> SUFFICES ASSUME kills = 0, NoOwn
               PROVE  Gathered' /\ AllMove'
    BY <1>4 DEF Together
  <1>5. Gathered /\ AllMove
    BY DEF Together
  <1>6. Gathered'
    <2>1. CASE NoLegacy
      BY <1>4, <2>1 DEF Gathered
    <2>2. CASE ~NoLegacy
      <3>1. PICK s \in Scopes : LegacyAt(s) /\ \A b \in root : Pending(todo, b, s)
        BY <1>5, <2>2 DEF Gathered
      <3>2. LegacyAt(s)'
        BY <3>1 DEF LegacyAt
      <3>3. \A b \in root' : Pending(todo', b, s)
        BY <1>2, <1>3, <3>1
      <3> QED
        BY <3>2, <3>3 DEF Gathered
    <2> QED
      BY <2>1, <2>2
  <1>7. AllMove'
    <2> SUFFICES ASSUME NEW i \in DOMAIN V, V[i].op = "move", NEW b \in root
                 PROVE  Pending(V, b, V[i].scope)
      BY <1>3 DEF AllMove
    <2>1. i + 1 \in DOMAIN todo /\ V[i] = todo[i + 1]
      BY <1>1
    <2>2. Pending(todo, b, todo[i + 1].scope)
      BY <1>5, <2>1 DEF AllMove
    <2> QED
      BY <1>2, <2>1, <2>2
  <1> QED
    BY <1>6, <1>7

(* The secrets that are left when a write other than that of auth.json is
   done. *)
LEMMA SafeRest ==
    ASSUME NEW W \in Seq(Writes), W # <<>>, W[1].op # "auth", NEW c, AllSafe(W, c)
    PROVE  AllSafe(Tail(W), c)
  <1> DEFINE V == Tail(W)
  <1>1. /\ \A i \in DOMAIN V : i + 1 \in DOMAIN W /\ V[i] = W[i + 1] /\ i \in Nat
        /\ \A i \in DOMAIN W : i # 1 => i - 1 \in DOMAIN V /\ V[i - 1] = W[i]
        /\ DOMAIN W = 1..Len(W) /\ DOMAIN V = 1..(Len(W) - 1) /\ Len(W) \in Nat
    BY RestOfWrites
  <1>2. \A i \in DOMAIN W : W[i].op = "secret" => SafeAt(W, i, c)
    BY DEF AllSafe
  <1>3. W[1].op # "auth"
    OBVIOUS
  <1> HIDE DEF V
  <1>4. ASSUME NEW i \in DOMAIN V, V[i].op = "secret"
        PROVE  SafeAt(V, i, c)
    <2>1. SafeAt(W, i + 1, c) /\ W[i + 1] = V[i] /\ i + 1 \in DOMAIN W /\ i \in Nat
      BY <1>1, <1>2, <1>4
    <2>2. ASSUME \A j \in 1..(i - 1) : V[j].op # "auth"
          PROVE  Safe(c, V[i].name)
      <3>1. ASSUME NEW j \in 1..((i + 1) - 1)
            PROVE  W[j].op # "auth"
        <4>1. CASE j = 1
          BY <1>3, <4>1
        <4>2. CASE j # 1
          <5>1. j - 1 \in 1..(i - 1) /\ j \in DOMAIN W
            BY <1>1, <2>1, <3>1, <4>2
          <5> QED
            BY <1>1, <2>2, <4>2, <5>1
        <4> QED
          BY <4>1, <4>2
      <3> QED
        BY <2>1, <3>1 DEF SafeAt
    <2>3. ASSUME NEW j \in 1..(i - 1), V[j].op = "auth"
          PROVE  V[i].name \notin NamesIn(V[j].file.accounts)
      <3>1. j + 1 \in 1..((i + 1) - 1) /\ j \in DOMAIN V
        BY <1>1, <2>1
      <3>2. W[j + 1] = V[j]
        BY <1>1, <3>1
      <3> QED
        BY <2>1, <2>3, <3>1, <3>2 DEF SafeAt
    <2> QED
      BY <2>2, <2>3 DEF SafeAt
  <1>5. AllSafe(V, c)
    BY <1>4 DEF AllSafe
  <1> QED
    BY <1>5 DEF V

(* The same of the command, that ends with its last write. *)
LEMMA CommandSafeRest ==
    ASSUME todo \in Seq(Writes), todo # <<>>, todo' = Tail(todo), todo[1].op # "auth",
           auth' = auth, todo' # <<>> => cmd' = cmd, AllSafe(todo, cmd)
    PROVE  AllSafe(todo, cmd)'
  <1>1. AllSafe(Tail(todo), cmd)
    BY SafeRest
  <1>2. CASE todo' = <<>>
    <2>1. DOMAIN todo' = {}
      BY <1>2
    <2> QED
      BY <2>1 DEF AllSafe
  <1>3. CASE todo' # <<>>
    BY <1>1, <1>3 DEF AllSafe, SafeAt, Safe
  <1> QED
    BY <1>2, <1>3

----------------------------------------------------------------------------
(* The steps that write. *)

(* A secret that was to be written is there, or is still to be. *)
LEMMA SecretSettles ==
    ASSUME Base, todo # <<>>, Write.op = "secret",
           keyring' = [keyring EXCEPT ![Write.name][Write.part] = Write.value],
           NEW k \in DOMAIN Tail(todo), NEW n \in Names, NEW v, Settles(keyring, todo, k + 1, n, v)
    PROVE  Settles(keyring', Tail(todo), k, n, v)
  <1> DEFINE W == todo
             V == Tail(todo)
             w == todo[1]
  <1>1. /\ Len(W) \in Nat /\ DOMAIN W = 1..Len(W) /\ 1 \in DOMAIN W
        /\ \A i \in DOMAIN W : W[i] \in Writes
        /\ DOMAIN V = 1..(Len(W) - 1)
        /\ \A i \in DOMAIN V : i + 1 \in DOMAIN W /\ V[i] = W[i + 1] /\ i \in Nat
        /\ \A i \in DOMAIN W : i # 1 => i - 1 \in DOMAIN V /\ V[i - 1] = W[i]
    <2>1. todo \in Seq(Writes)
      BY DEF Base
    <2> QED
      BY <2>1, RestOfWrites
  <1>2. /\ w.op = "secret" /\ w.name \in Names /\ w.part \in Range(Parts)
        /\ keyring' = [keyring EXCEPT ![w.name][w.part] = w.value]
    BY <1>1, WriteKinds DEF Write
  <1>3. keyring \in [Names -> Keys]
    BY DEF Base
  <1>4. \A p \in Range(Parts) :
           /\ \A i \in 1..k : W[i].op = "secret" /\ W[i].name = n /\ W[i].part = p => W[i].value = v[p]
           /\ \/ keyring[n][p] = v[p]
              \/ \E i \in 1..k : W[i].op = "secret" /\ W[i].name = n /\ W[i].part = p
    <2>1. (k + 1) - 1 = k
      BY <1>1
    <2> QED
      BY <2>1 DEF Settles
  <1>5. w = W[1] /\ k \in DOMAIN V
    OBVIOUS
  <1> HIDE DEF W, V, w
  <1>6. \A i \in 1..(k - 1) : \A p \in Range(Parts) :
           V[i].op = "secret" /\ V[i].name = n /\ V[i].part = p => V[i].value = v[p]
    <2> SUFFICES ASSUME NEW i \in 1..(k - 1), NEW p \in Range(Parts),
                        V[i].op = "secret", V[i].name = n, V[i].part = p
                 PROVE  V[i].value = v[p]
      OBVIOUS
    <2>1. i \in DOMAIN V /\ i + 1 \in 1..k
      BY <1>1, <1>5
    <2>2. V[i] = W[i + 1]
      BY <1>1, <2>1
    <2> QED
      BY <1>4, <2>1, <2>2
  <1>7. ASSUME NEW p \in Range(Parts)
        PROVE  \/ keyring'[n][p] = v[p]
               \/ \E i \in 1..(k - 1) : V[i].op = "secret" /\ V[i].name = n /\ V[i].part = p
    <2>0. DOMAIN keyring[n] = Range(Parts)
      BY <1>3 DEF Keys
    <2>1. CASE w.name = n /\ w.part = p
      <3>1. keyring'[n][p] = w.value
        BY <1>2, <1>3, <2>0, <2>1
      <3>2. 1 \in 1..k
        BY <1>1
      <3>3. w.value = v[p]
        BY <1>2, <1>4, <1>5, <2>1, <3>2
      <3> QED
        BY <3>1, <3>3
    <2>2. CASE ~(w.name = n /\ w.part = p)
      <3>1. keyring'[n][p] = keyring[n][p]
        BY <1>2, <1>3, <2>0, <2>2
      <3>2. CASE keyring[n][p] = v[p]
        BY <3>1, <3>2
      <3>3. CASE \E i \in 1..k : W[i].op = "secret" /\ W[i].name = n /\ W[i].part = p
        <4>1. PICK i \in 1..k : W[i].op = "secret" /\ W[i].name = n /\ W[i].part = p
          BY <3>3
        <4>2. i # 1 /\ i \in DOMAIN W /\ i - 1 \in 1..(k - 1)
          <5>1. i # 1
            BY <1>5, <2>2, <4>1
          <5> QED
            BY <1>1, <1>5, <4>1, <5>1
        <4>3. V[i - 1] = W[i]
          BY <1>1, <4>2
        <4> QED
          BY <4>1, <4>2, <4>3
      <3> QED
        BY <1>4, <3>2, <3>3
    <2> QED
      BY <2>1, <2>2
  <1> QED
    BY <1>6, <1>7 DEF V, Settles

(* What is known of the credentials a login or a logout is going to leave does
   not depend on what is known of them before. *)
LEMMA GivenForAgrees ==
    ASSUME Base, WriteSecret, NEW f, NEW n \in Names, GivenFor(cmd, f)'[n] # Unknown,
           cmd' = cmd
    PROVE  GivenFor(cmd, f)'[n] = GivenFor(cmd, f)[n]
  <1> DEFINE m == Write.name
  <1>1. /\ auth' = auth /\ given \in [Names -> Keys \cup {Unknown}] /\ CommandType(cmd)
        /\ given' = IF cmd.kind \in {"login", "logout"} /\ cmd.name = m
                    THEN [given EXCEPT ![m] = Unknown] ELSE given
    BY DEF Base, WriteSecret
  <1>2. /\ cmd.kind \in {"login", "logout", "rename"} => cmd.name \in Names
        /\ cmd.kind = "rename" => cmd.new \in Names
    BY <1>1 DEF CommandType
  <1> HIDE DEF m
  <1>3. CASE auth.exists /\ f.backend # auth.backend
    BY <1>1, <1>3 DEF GivenFor
  <1>4. CASE ~(auth.exists /\ f.backend # auth.backend)
    <2>1. CASE cmd.kind = "login"
      <3>1. /\ GivenFor(cmd, f) = [given EXCEPT ![cmd.name] = cmd.keys]
            /\ GivenFor(cmd, f)' = [given' EXCEPT ![cmd.name] = cmd.keys]
        BY <1>1, <1>4, <2>1 DEF GivenFor
      <3>2. given' = [given EXCEPT ![cmd.name] = Unknown] \/ given' = given
        BY <1>1
      <3> QED
        BY <1>1, <1>2, <2>1, <3>1, <3>2
    <2>2. CASE cmd.kind = "logout"
      <3>1. GivenFor(cmd, f) = given /\ GivenFor(cmd, f)' = given'
        BY <1>1, <1>4, <2>2 DEF GivenFor
      <3> QED
        BY <1>1, <1>2, <2>2, <3>1
    <2>3. CASE cmd.kind \notin {"login", "logout"}
      <3>1. given' = given
        BY <1>1, <2>3
      <3> QED
        BY <1>1, <3>1 DEF GivenFor
    <2> QED
      BY <2>1, <2>2, <2>3
  <1> QED
    BY <1>3, <1>4

(* The auth.json that is left to write when something else was written. *)
LEMMA AuthRest ==
    ASSUME Base, todo # <<>>, Advance, auth' = auth, owners' = owners,
           AuthFrame(todo, cmd, minted),
           (\A k \in DOMAIN todo : todo[k].op = "auth" => Restores(todo, k, cmd))'
    PROVE  AuthFrame(todo, cmd, minted)'
  <1>1. todo \in Seq(Writes)
    BY DEF Base
  <1>2. \A i \in DOMAIN Tail(todo) : i + 1 \in DOMAIN todo /\ Tail(todo)[i] = todo[i + 1] /\ i \in Nat
    BY <1>1, RestOfWrites
  <1>3. todo' = Tail(todo) /\ (todo' # <<>> => cmd' = cmd) /\ minted' = minted
    BY StepOn
  <1>4. \A k \in DOMAIN todo : todo[k].op = "auth" => AuthGood(todo, k, cmd, minted)
    BY DEF AuthFrame
  <1>5. ASSUME NEW k \in DOMAIN todo', todo'[k].op = "auth"
        PROVE  AuthGood(todo, k, cmd, minted)'
    <2>1. k + 1 \in DOMAIN todo /\ todo'[k] = todo[k + 1] /\ todo' # <<>>
      BY <1>2, <1>3
    <2>2. PICK f : f = todo[k + 1].file
      OBVIOUS
    <2>3. todo'[k].file = f /\ cmd' = cmd
      BY <1>3, <2>1, <2>2
    <2>4. SoundFile(f, minted) /\ f.exists /\ KeepsIds(cmd, f) /\ OwnersMatch(f.accounts, OwnersFor(cmd, f))
      BY <1>4, <1>5, <2>1, <2>2 DEF AuthGood
    <2>5. KeepsIds(cmd, f)'
      BY <2>3, <2>4 DEF KeepsIds
    <2>6. OwnersMatch(f.accounts, OwnersFor(cmd, f))'
      <3>1. OwnersFor(cmd, f)' = OwnersFor(cmd, f)
        BY <2>3 DEF OwnersFor
      <3> QED
        BY <2>4, <3>1
    <2>7. SoundFile(f, minted')
      BY <1>3, <2>4
    <2>8. Restores(todo, k, cmd)'
      BY <1>5
    <2> QED
      BY <2>3, <2>4, <2>5, <2>6, <2>7, <2>8 DEF AuthGood
  <1>6. ASSUME NEW j \in DOMAIN todo', NEW k \in DOMAIN todo', todo'[j].op = "auth", todo'[k].op = "auth"
        PROVE  j = k
    <2>1. /\ j + 1 \in DOMAIN todo /\ todo'[j] = todo[j + 1] /\ j \in Nat
          /\ k + 1 \in DOMAIN todo /\ todo'[k] = todo[k + 1] /\ k \in Nat
      BY <1>2, <1>3
    <2>2. j + 1 = k + 1
      BY <1>6, <2>1 DEF AuthFrame
    <2> QED
      BY <2>1, <2>2
  <1> QED
    BY <1>5, <1>6 DEF AuthFrame

(* One secret is written: nothing that is known of an account is lost. *)
LEMMA SecretKeeps ==
    ASSUME AccountsInv, WriteSecret
    PROVE  AccountsInv'
  <1> DEFINE w == Write
  <1>1. /\ Base /\ Known /\ OwnersMatch(auth.accounts, owners) /\ RootFrame /\ Together
        /\ AuthFrame(todo, cmd, minted) /\ AllSafe(todo, cmd) /\ MoveFrame(todo)
    BY DEF AccountsInv, TodoFrame
  <1>2. /\ todo # <<>> /\ w.op = "secret" /\ w = todo[1] /\ Advance
        /\ keyring' = [keyring EXCEPT ![w.name][w.part] = w.value]
        /\ given' = IF cmd.kind \in {"login", "logout"} /\ cmd.name = w.name
                    THEN [given EXCEPT ![w.name] = Unknown] ELSE given
        /\ auth' = auth /\ root' = root /\ dirs' = dirs /\ owners' = owners
    BY DEF WriteSecret, Write, bookVars
  <1>3. /\ todo \in Seq(Writes) /\ keyring \in [Names -> Keys]
        /\ given \in [Names -> Keys \cup {Unknown}] /\ SoundFile(auth, minted)
    BY <1>1 DEF Base
  <1>4. /\ 1 \in DOMAIN todo /\ DOMAIN todo = 1..Len(todo) /\ Len(todo) \in Nat
        /\ \A i \in DOMAIN Tail(todo) : i + 1 \in DOMAIN todo /\ Tail(todo)[i] = todo[i + 1] /\ i \in Nat
    BY <1>2, <1>3, RestOfWrites
  <1>5. w.name \in Names /\ w.part \in Range(Parts) /\ w.value \in Values
    <2>1. w \in Writes
      BY <1>2, <1>3, <1>4
    <2> QED
      BY <1>2, <2>1, WriteKinds
  <1>6. /\ todo' = Tail(todo) /\ todo' \in Seq(Writes) /\ CommandType(cmd')
        /\ (cmd' = NoCommand => todo' = <<>>) /\ (todo' # <<>> => cmd' = cmd)
        /\ minted' = minted /\ kills' = kills /\ outages' = outages /\ available' = available
    BY <1>1, <1>2, StepOn
  <1> HIDE DEF w
  <1>7. Base'
    <2>1. keyring' \in [Names -> Keys]
      BY <1>2, <1>3, <1>5 DEF Keys
    <2>2. given' \in [Names -> Keys \cup {Unknown}]
      BY <1>2, <1>3
    <2> QED
      BY <1>1, <1>2, <1>6, <2>1, <2>2 DEF Base
  <1>8. Safe(cmd, w.name)
    <2>1. SafeAt(todo, 1, cmd)
      BY <1>1, <1>2, <1>4 DEF AllSafe
    <2>2. 1..(1 - 1) = {}
      OBVIOUS
    <2> QED
      BY <1>2, <2>1, <2>2 DEF SafeAt
  <1>9. Known'
    <2> SUFFICES ASSUME NEW i \in DOMAIN auth.accounts, given'[auth.accounts[i].name] # Unknown
                 PROVE  KeysOf(auth.accounts[i], auth.backend)' = given'[auth.accounts[i].name]
      BY <1>2 DEF Known
    <2> DEFINE n == auth.accounts[i].name
    <2>1. n \in NamesIn(auth.accounts) /\ n \in Names
      <3>1. auth.accounts \in Seq(Account)
        BY <1>3 DEF SoundFile, File
      <3>2. auth.accounts[i] \in Account
        BY <3>1
      <3> QED
        BY <3>2 DEF NamesIn, Account
    <2>2. given'[n] = given[n]
      <3>1. given' = given \/ given' = [given EXCEPT ![w.name] = Unknown]
        BY <1>2
      <3> QED
        BY <1>3, <1>5, <2>1, <3>1
    <2>3. keyring'[n] = keyring[n]
      <3>1. CASE n = w.name
        <4>1. cmd.kind \in {"login", "logout"} /\ cmd.name = w.name
          BY <1>8, <2>1, <3>1 DEF Safe
        <4>2. given'[n] = Unknown
          BY <1>2, <1>3, <2>1, <3>1, <4>1
        <4> QED
          BY <4>2
      <3>2. CASE n # w.name
        BY <1>2, <1>3, <1>5, <2>1, <3>2
      <3> QED
        BY <3>1, <3>2
    <2>4. KeysOf(auth.accounts[i], auth.backend) = given[n]
      BY <1>1, <2>2 DEF Known
    <2> HIDE DEF n
    <2>5. n = auth.accounts[i].name
      BY DEF n
    <2> QED
      BY <1>2, <2>2, <2>3, <2>4, <2>5 DEF KeysOf
  <1>10. (\A k \in DOMAIN todo : todo[k].op = "auth" => Restores(todo, k, cmd))'
    <2> SUFFICES ASSUME NEW k \in DOMAIN todo', todo'[k].op = "auth"
                 PROVE  Restores(todo, k, cmd)'
      OBVIOUS
    <2>1. k \in DOMAIN Tail(todo) /\ k + 1 \in DOMAIN todo /\ todo'[k] = todo[k + 1] /\ todo' # <<>>
      BY <1>4, <1>6
    <2>2. PICK f : f = todo[k + 1].file
      OBVIOUS
    <2>3. f = todo'[k].file /\ f \in File /\ cmd' = cmd
      <3>1. todo'[k] \in Writes
        BY <1>6
      <3> QED
        BY <1>6, <2>1, <2>2, <3>1, WriteKinds
    <2>4. Restores(todo, k + 1, cmd)
      BY <1>1, <2>1 DEF AuthFrame, AuthGood
    <2> SUFFICES ASSUME NEW i \in DOMAIN f.accounts, GivenFor(cmd, f)'[f.accounts[i].name] # Unknown
                 PROVE  IF f.backend = "keyring"
                        THEN Settles(keyring, todo, k, f.accounts[i].name, GivenFor(cmd, f)[f.accounts[i].name])'
                        ELSE f.accounts[i].keys = GivenFor(cmd, f)'[f.accounts[i].name]
      BY <2>3 DEF Restores
    <2>5. PICK n \in Names : n = f.accounts[i].name
      <3>1. f.accounts \in Seq(Account)
        BY <2>3 DEF File
      <3>2. f.accounts[i] \in Account
        BY <3>1
      <3> QED
        BY <3>2 DEF Account
    <2>6. PICK v : v = GivenFor(cmd, f)[n]
      OBVIOUS
    <2>7. GivenFor(cmd, f)'[n] = v /\ v # Unknown
      BY <1>1, <2>3, <2>5, <2>6, GivenForAgrees
    <2>8. IF f.backend = "keyring" THEN Settles(keyring, todo, k + 1, n, v) ELSE f.accounts[i].keys = v
      BY <2>2, <2>4, <2>5, <2>6, <2>7 DEF Restores
    <2>9. CASE f.backend = "keyring"
      <3>1. Settles(keyring, todo, k + 1, n, v)
        BY <2>8, <2>9
      <3>2. Settles(keyring', Tail(todo), k, n, v)
        <4>1. Write.op = "secret" /\ keyring' = [keyring EXCEPT ![Write.name][Write.part] = Write.value]
          BY DEF WriteSecret
        <4> QED
          BY <1>1, <1>2, <2>1, <3>1, <4>1, SecretSettles
      <3>3. Settles(keyring', todo', k, n, v)
        BY <1>6, <3>2
      <3> QED
        BY <2>5, <2>7, <2>9, <3>3
    <2>10. CASE f.backend # "keyring"
      BY <2>5, <2>7, <2>8, <2>10
    <2> QED
      BY <2>9, <2>10
  <1>11. AuthFrame(todo, cmd, minted)'
    BY <1>1, <1>2, <1>10, AuthRest
  <1>12. AllSafe(todo, cmd)'
    BY <1>1, <1>2, <1>3, <1>6, CommandSafeRest
  <1>13. MoveFrame(todo)'
    BY <1>1, <1>2, <1>3, <1>6, MovesRest
  <1>14. Together'
    BY <1>1, <1>2, <1>3, <1>6, TogetherRest
  <1>15. RootFrame' /\ OwnersMatch(auth.accounts, owners)'
    BY <1>1, <1>2 DEF RootFrame
  <1> QED
    BY <1>7, <1>9, <1>11, <1>12, <1>13, <1>14, <1>15 DEF AccountsInv, TodoFrame

(* The proven owners stay sets of exchange accounts. *)
LEMMA OwnersForType ==
    ASSUME Base, NEW c, CommandType(c), NEW f
    PROVE  OwnersFor(c, f) \in [1..MaxIds -> SUBSET (Refs \ {None})]
  <1>1. owners \in [1..MaxIds -> SUBSET (Refs \ {None})]
    BY DEF Base
  <1>2. CASE c.kind = "login" /\ c.ref # None
    <2>1. c.id \in 1..MaxIds /\ c.ref \in Refs \ {None}
      BY <1>2 DEF CommandType
    <2>2. OwnersFor(c, f) = [owners EXCEPT ![c.id] = IF c.force THEN {c.ref} ELSE owners[c.id] \cup {c.ref}]
      BY <1>2 DEF OwnersFor
    <2>3. (IF c.force THEN {c.ref} ELSE owners[c.id] \cup {c.ref}) \in SUBSET (Refs \ {None})
      BY <1>1, <2>1
    <2> QED
      BY <1>1, <2>1, <2>2, <2>3
  <1>3. CASE c.kind = "logout"
    <2>1. OwnersFor(c, f) =
             [i \in DOMAIN owners |-> IF \E e \in Range(f.accounts) : e.id = i THEN owners[i] ELSE {}]
      BY <1>3 DEF OwnersFor
    <2> QED
      BY <1>1, <2>1
  <1>4. CASE ~(c.kind = "login" /\ c.ref # None) /\ c.kind # "logout"
    BY <1>1, <1>4 DEF OwnersFor
  <1> QED
    BY <1>2, <1>3, <1>4

(* auth.json is replaced: every account reads back what it was given. *)
LEMMA AuthKeeps ==
    ASSUME AccountsInv, WriteAuth
    PROVE  AccountsInv'
  <1>1. /\ Base /\ Known /\ OwnersMatch(auth.accounts, owners) /\ RootFrame /\ Together
        /\ AuthFrame(todo, cmd, minted) /\ AllSafe(todo, cmd) /\ MoveFrame(todo)
    BY DEF AccountsInv, TodoFrame
  <1>2. PICK f : f = todo[1].file
    OBVIOUS
  <1>3. /\ todo # <<>> /\ todo[1].op = "auth" /\ Advance /\ auth' = f
        /\ given' = GivenAfter /\ owners' = OwnersAfter
        /\ keyring' = keyring /\ root' = root /\ dirs' = dirs
    BY <1>2 DEF WriteAuth, Write, bookVars
  <1>4. given' = GivenFor(cmd, f) /\ owners' = OwnersFor(cmd, f)
    BY <1>2, <1>3 DEF GivenAfter, BackendChanges, OwnersAfter, GivenFor, OwnersFor, Write
  <1>5. todo \in Seq(Writes) /\ keyring \in [Names -> Keys] /\ CommandType(cmd)
    BY <1>1 DEF Base
  <1>6. /\ 1 \in DOMAIN todo /\ DOMAIN todo = 1..Len(todo) /\ Len(todo) \in Nat
        /\ DOMAIN Tail(todo) = 1..(Len(todo) - 1)
        /\ \A i \in DOMAIN Tail(todo) : i + 1 \in DOMAIN todo /\ Tail(todo)[i] = todo[i + 1] /\ i \in Nat
    BY <1>3, <1>5, RestOfWrites
  <1>7. /\ todo' = Tail(todo) /\ todo' \in Seq(Writes) /\ CommandType(cmd')
        /\ (cmd' = NoCommand => todo' = <<>>) /\ (todo' # <<>> => cmd' = cmd)
        /\ minted' = minted /\ kills' = kills /\ outages' = outages /\ available' = available
    BY <1>1, <1>3, StepOn
  <1>8. /\ SoundFile(f, minted) /\ Restores(todo, 1, cmd)
        /\ OwnersMatch(f.accounts, OwnersFor(cmd, f))
    BY <1>1, <1>2, <1>3, <1>6 DEF AuthFrame, AuthGood
  <1>9. given' \in [Names -> Keys \cup {Unknown}] /\ owners' \in [1..MaxIds -> SUBSET (Refs \ {None})]
    BY <1>1, <1>4, <1>5, GivenForType, OwnersForType
  <1>10. Base'
    <2>1. SoundFile(auth', minted')
      BY <1>3, <1>7, <1>8
    <2> QED
      BY <1>1, <1>3, <1>7, <1>9, <2>1 DEF Base
  <1>11. Known'
    <2> SUFFICES ASSUME NEW i \in DOMAIN f.accounts, given'[f.accounts[i].name] # Unknown
                 PROVE  KeysOf(f.accounts[i], f.backend)' = given'[f.accounts[i].name]
      BY <1>3 DEF Known
    <2>1. PICK n \in Names : n = f.accounts[i].name
      <3>1. f.accounts \in Seq(Account)
        BY <1>8 DEF SoundFile, File
      <3>2. f.accounts[i] \in Account
        BY <3>1
      <3> QED
        BY <3>2 DEF Account
    <2>2. PICK v \in Keys : v = given'[n]
      BY <1>9, <2>1
    <2>3. IF f.backend = "keyring" THEN Settles(keyring, todo, 1, n, v) ELSE f.accounts[i].keys = v
      BY <1>2, <1>4, <1>8, <2>1, <2>2 DEF Restores
    <2>4. CASE f.backend = "keyring"
      <3>1. \A p \in Range(Parts) : keyring[n][p] = v[p]
        <4>1. 1..(1 - 1) = {}
          OBVIOUS
        <4> QED
          BY <2>3, <2>4, <4>1 DEF Settles
      <3>2. keyring[n] \in Keys
        BY <1>5
      <3>3. keyring[n] = v
        BY <3>1, <3>2 DEF Keys
      <3> QED
        BY <1>3, <2>1, <2>2, <2>4, <3>3 DEF KeysOf
    <2>5. CASE f.backend # "keyring"
      BY <2>1, <2>2, <2>3, <2>5 DEF KeysOf
    <2> QED
      BY <2>4, <2>5
  <1>12. OwnersMatch(auth.accounts, owners)'
    BY <1>3, <1>4, <1>8
  <1>13. \A i \in DOMAIN Tail(todo) : Tail(todo)[i].op # "auth"
    <2> SUFFICES ASSUME NEW i \in DOMAIN Tail(todo), Tail(todo)[i].op = "auth"
                 PROVE  FALSE
      OBVIOUS
    <2>1. i + 1 \in DOMAIN todo /\ todo[i + 1].op = "auth" /\ i \in Nat /\ i # 0
      BY <1>6
    <2>2. i + 1 = 1
      BY <1>1, <1>3, <1>6, <2>1 DEF AuthFrame
    <2> QED
      BY <2>1, <2>2
  <1>14. AuthFrame(todo, cmd, minted)'
    BY <1>7, <1>13 DEF AuthFrame
  <1>15. AllSafe(todo, cmd)'
    <2> SUFFICES ASSUME NEW i \in DOMAIN todo', todo'[i].op = "secret"
                 PROVE  SafeAt(todo, i, cmd)'
      BY DEF AllSafe
    <2>1. i + 1 \in DOMAIN todo /\ todo'[i] = todo[i + 1] /\ i \in Nat /\ 1 \in 1..((i + 1) - 1) /\ i \in DOMAIN Tail(todo)
      BY <1>6, <1>7
    <2>2. todo'[i].name \notin NamesIn(f.accounts)
      <3>1. SafeAt(todo, i + 1, cmd)
        BY <1>1, <2>1 DEF AllSafe
      <3> QED
        BY <1>2, <1>3, <2>1, <3>1 DEF SafeAt
    <2>3. \A j \in 1..(i - 1) : todo'[j].op # "auth"
      <3> SUFFICES ASSUME NEW j \in 1..(i - 1)
                   PROVE  todo'[j].op # "auth"
        OBVIOUS
      <3>1. j \in DOMAIN Tail(todo)
        BY <1>6, <2>1
      <3> QED
        BY <1>7, <1>13, <3>1
    <2>4. NamesIn(f.accounts) = NamesIn(auth'.accounts)
      BY <1>3
    <2> QED
      BY <2>2, <2>3, <2>4 DEF SafeAt, Safe
  <1>16. MoveFrame(todo)'
    BY <1>1, <1>3, <1>5, <1>7, MovesRest
  <1>17. Together'
    BY <1>1, <1>3, <1>5, <1>7, TogetherRest
  <1>18. RootFrame'
    BY <1>1, <1>3 DEF RootFrame
  <1> QED
    BY <1>10, <1>11, <1>12, <1>14, <1>15, <1>16, <1>17, <1>18 DEF AccountsInv, TodoFrame

(* What is said of the credentials when a book is written. *)
LEMMA BookLeaves ==
    ASSUME AccountsInv, todo # <<>>, Advance, Write.op \in {"move", "book"},
           auth' = auth, keyring' = keyring, given' = given, owners' = owners
    PROVE  /\ Known' /\ OwnersMatch(auth.accounts, owners)'
           /\ AuthFrame(todo, cmd, minted)' /\ AllSafe(todo, cmd)'
  <1>1. /\ Base /\ Known /\ OwnersMatch(auth.accounts, owners)
        /\ AuthFrame(todo, cmd, minted) /\ AllSafe(todo, cmd)
    BY DEF AccountsInv, TodoFrame
  <1>2. todo \in Seq(Writes) /\ todo[1].op \in {"move", "book"}
    BY <1>1 DEF Base, Write
  <1>3. /\ DOMAIN todo = 1..Len(todo) /\ Len(todo) \in Nat /\ DOMAIN Tail(todo) = 1..(Len(todo) - 1)
        /\ \A i \in DOMAIN Tail(todo) : i + 1 \in DOMAIN todo /\ Tail(todo)[i] = todo[i + 1] /\ i \in Nat
        /\ \A i \in DOMAIN todo : i # 1 => i - 1 \in DOMAIN Tail(todo) /\ Tail(todo)[i - 1] = todo[i]
    BY <1>2, RestOfWrites
  <1>4. todo' = Tail(todo) /\ (todo' # <<>> => cmd' = cmd)
    BY <1>1, StepOn
  <1>5. ASSUME NEW k \in DOMAIN Tail(todo), NEW n, NEW v, Settles(keyring, todo, k + 1, n, v)
        PROVE  Settles(keyring, Tail(todo), k, n, v)
    <2> DEFINE W == todo
               V == Tail(todo)
    <2>1. \A p \in Range(Parts) :
             /\ \A i \in 1..k : W[i].op = "secret" /\ W[i].name = n /\ W[i].part = p => W[i].value = v[p]
             /\ \/ keyring[n][p] = v[p]
                \/ \E i \in 1..k : W[i].op = "secret" /\ W[i].name = n /\ W[i].part = p
      <3>1. (k + 1) - 1 = k
        BY <1>3
      <3> QED
        BY <1>5, <3>1 DEF Settles
    <2>2. \A i \in 1..k : W[i].op = "secret" => i - 1 \in 1..(k - 1) /\ V[i - 1] = W[i]
      <3> SUFFICES ASSUME NEW i \in 1..k, W[i].op = "secret"
                   PROVE  i - 1 \in 1..(k - 1) /\ V[i - 1] = W[i]
        OBVIOUS
      <3>1. i # 1 /\ i \in DOMAIN W
        BY <1>2, <1>3
      <3> QED
        BY <1>3, <3>1
    <2>3. \A i \in 1..(k - 1) : i + 1 \in 1..k /\ V[i] = W[i + 1]
      BY <1>3
    <2> HIDE DEF W, V
    <2>4. ASSUME NEW p \in Range(Parts)
          PROVE  /\ \A i \in 1..(k - 1) :
                       V[i].op = "secret" /\ V[i].name = n /\ V[i].part = p => V[i].value = v[p]
                 /\ \/ keyring[n][p] = v[p]
                    \/ \E i \in 1..(k - 1) : V[i].op = "secret" /\ V[i].name = n /\ V[i].part = p
      <3>1. \A i \in 1..(k - 1) :
               V[i].op = "secret" /\ V[i].name = n /\ V[i].part = p => V[i].value = v[p]
        BY <2>1, <2>3
      <3>2. \/ keyring[n][p] = v[p]
            \/ \E i \in 1..(k - 1) : V[i].op = "secret" /\ V[i].name = n /\ V[i].part = p
        BY <2>1, <2>2
      <3> QED
        BY <3>1, <3>2
    <2> QED
      BY <2>4 DEF Settles, V
  <1>6. (\A k \in DOMAIN todo : todo[k].op = "auth" => Restores(todo, k, cmd))'
    <2> SUFFICES ASSUME NEW k \in DOMAIN todo', todo'[k].op = "auth"
                 PROVE  Restores(todo, k, cmd)'
      OBVIOUS
    <2>1. /\ k \in DOMAIN Tail(todo) /\ k + 1 \in DOMAIN todo /\ todo'[k] = todo[k + 1]
          /\ cmd' = cmd
      BY <1>3, <1>4
    <2>2. PICK f : f = todo[k + 1].file
      OBVIOUS
    <2>3. Restores(todo, k + 1, cmd)
      BY <1>1, <2>1 DEF AuthFrame, AuthGood
    <2>4. GivenFor(cmd, f)' = GivenFor(cmd, f)
      BY <2>1 DEF GivenFor
    <2> SUFFICES ASSUME NEW i \in DOMAIN f.accounts, NEW n, n = f.accounts[i].name,
                        NEW v, v = GivenFor(cmd, f)[n], v # Unknown
                 PROVE  IF f.backend = "keyring" THEN Settles(keyring, todo', k, n, v)
                        ELSE f.accounts[i].keys = v
      BY <2>1, <2>2, <2>4 DEF Restores
    <2>5. IF f.backend = "keyring" THEN Settles(keyring, todo, k + 1, n, v) ELSE f.accounts[i].keys = v
      BY <2>2, <2>3 DEF Restores
    <2> QED
      BY <1>4, <1>5, <2>1, <2>5
  <1>7. AuthFrame(todo, cmd, minted)'
    BY <1>1, <1>6, AuthRest
  <1>8. AllSafe(todo, cmd)'
    BY <1>1, <1>2, <1>4, CommandSafeRest
  <1>9. Known' /\ OwnersMatch(auth.accounts, owners)'
    BY <1>1 DEF Known, KeysOf
  <1> QED
    BY <1>7, <1>8, <1>9

(* A book is moved: it is in one place before and after. *)
LEMMA MoveKeeps ==
    ASSUME AccountsInv, MoveBook
    PROVE  AccountsInv'
  <1> DEFINE w == Write
  <1>1. /\ Base /\ RootFrame /\ Together /\ MoveFrame(todo)
    BY DEF AccountsInv, TodoFrame
  <1>2. /\ todo # <<>> /\ w.op = "move" /\ w = todo[1] /\ Advance
        /\ root' = root \ {w.book} /\ dirs' = [dirs EXCEPT ![w.scope][w.book] = "legacy"]
        /\ auth' = auth /\ keyring' = keyring /\ given' = given /\ owners' = owners
    BY DEF MoveBook, Write, authVars, ghostVars
  <1>3. /\ Known' /\ OwnersMatch(auth.accounts, owners)'
        /\ AuthFrame(todo, cmd, minted)' /\ AllSafe(todo, cmd)'
    BY <1>2, BookLeaves
  <1>4. /\ todo \in Seq(Writes) /\ root \subseteq BookFiles
        /\ dirs \in [Scopes -> [BookFiles -> {None, "own", "legacy"}]]
    BY <1>1 DEF Base
  <1>5. /\ 1 \in DOMAIN todo
        /\ \A i \in DOMAIN Tail(todo) : i + 1 \in DOMAIN todo /\ Tail(todo)[i] = todo[i + 1] /\ i \in Nat
        /\ \A i \in DOMAIN todo : i # 1 => i - 1 \in DOMAIN Tail(todo) /\ Tail(todo)[i - 1] = todo[i]
        /\ \A i \in DOMAIN todo : todo[i] \in Writes
        /\ \A i \in DOMAIN Tail(todo) : i > 0
    BY <1>2, <1>4, RestOfWrites
  <1>6. w.book \in BookFiles /\ w.scope \in Scopes
    BY <1>2, <1>5, WriteKinds
  <1>7. /\ todo' = Tail(todo) /\ todo' \in Seq(Writes) /\ CommandType(cmd')
        /\ (cmd' = NoCommand => todo' = <<>>) /\ (todo' # <<>> => cmd' = cmd)
        /\ minted' = minted /\ kills' = kills /\ outages' = outages /\ available' = available
    BY <1>1, <1>2, StepOn
  <1>8. /\ \A i \in DOMAIN todo : todo[i].op = "move" => todo[i].book \in root /\ dirs[todo[i].scope][todo[i].book] = None
        /\ \A i, j \in DOMAIN todo : todo[i].op = "move" /\ todo[j].op = "move" =>
              todo[i].scope = todo[j].scope /\ (todo[i].book = todo[j].book => i = j)
        /\ \A i, j \in DOMAIN todo : todo[i].op = "move" /\ todo[j].op = "book" => i < j
    BY <1>1 DEF MoveFrame
  <1>9. w.book \in root /\ dirs[w.scope][w.book] = None
    BY <1>2, <1>5, <1>8
  <1> HIDE DEF w
  <1>10. \A s \in Scopes, b \in BookFiles :
            dirs'[s][b] = IF s = w.scope /\ b = w.book THEN "legacy" ELSE dirs[s][b]
    BY <1>2, <1>4, <1>6
  <1>11. Base'
    <2>1. dirs' \in [Scopes -> [BookFiles -> {None, "own", "legacy"}]]
      BY <1>2, <1>4, <1>6
    <2>2. root' \subseteq BookFiles
      BY <1>2, <1>4
    <2> QED
      BY <1>1, <1>2, <1>7, <2>1, <2>2 DEF Base
  <1>12. MoveFrame(todo)'
    <2> DEFINE V == Tail(todo)
    <2>0. V = Tail(todo) /\ \A i \in DOMAIN V : V[i] \in Writes
      BY <1>5
    <2> HIDE DEF V
    <2>1. ASSUME NEW i \in DOMAIN V, V[i].op = "move"
          PROVE  V[i].book \in root' /\ dirs'[V[i].scope][V[i].book] = None
      <3>1. i + 1 \in DOMAIN todo /\ todo[i + 1] = V[i] /\ i + 1 # 1
        BY <1>5, <2>0
      <3>2. V[i].book # w.book
        BY <1>2, <1>5, <1>8, <2>1, <3>1
      <3>3. V[i].book \in root /\ dirs[V[i].scope][V[i].book] = None
        BY <1>8, <2>1, <3>1
      <3>4. V[i].scope \in Scopes /\ V[i].book \in BookFiles
        BY <2>0, <2>1, WriteKinds
      <3> QED
        BY <1>2, <1>10, <3>2, <3>3, <3>4
    <2>2. ASSUME NEW i \in DOMAIN V, NEW j \in DOMAIN V, V[i].op = "move", V[j].op = "move"
          PROVE  V[i].scope = V[j].scope /\ (V[i].book = V[j].book => i = j)
      <3>1. /\ i + 1 \in DOMAIN todo /\ j + 1 \in DOMAIN todo /\ i \in Nat /\ j \in Nat
            /\ todo[i + 1] = V[i] /\ todo[j + 1] = V[j]
        BY <1>5, <2>0
      <3>2. V[i].scope = V[j].scope /\ (V[i].book = V[j].book => i + 1 = j + 1)
        BY <1>8, <2>2, <3>1
      <3> QED
        BY <3>1, <3>2
    <2>3. ASSUME NEW i \in DOMAIN V, NEW j \in DOMAIN V, V[i].op = "move", V[j].op = "book"
          PROVE  i < j
      <3>1. /\ i + 1 \in DOMAIN todo /\ j + 1 \in DOMAIN todo /\ i \in Nat /\ j \in Nat
            /\ todo[i + 1] = V[i] /\ todo[j + 1] = V[j]
        BY <1>5, <2>0
      <3>2. i + 1 < j + 1
        BY <1>8, <2>3, <3>1
      <3> QED
        BY <3>1, <3>2
    <2> QED
      BY <1>7, <2>0, <2>1, <2>2, <2>3 DEF MoveFrame
  <1>13. RootFrame'
    <2> SUFFICES ASSUME NEW b \in root', NEW s \in Scopes
                 PROVE  dirs'[s][b] # "legacy"
      BY DEF RootFrame
    <2>1. b \in root /\ b # w.book /\ b \in BookFiles
      BY <1>2, <1>4
    <2> QED
      BY <1>1, <1>10, <2>1 DEF RootFrame
  <1>14. Together'
    <2> SUFFICES ASSUME kills = 0, NoOwn'
                 PROVE  Gathered' /\ AllMove'
      BY <1>7 DEF Together
    <2>1. NoOwn
      <3> SUFFICES ASSUME NEW s \in Scopes, NEW b \in BookFiles, dirs[s][b] = "own"
                   PROVE  FALSE
        BY DEF NoOwn
      <3>1. ~(s = w.scope /\ b = w.book)
        BY <1>9 DEF None
      <3>2. dirs'[s][b] = "own"
        BY <1>10, <3>1
      <3> QED
        BY <3>2 DEF NoOwn
    <2>2. Gathered /\ AllMove
      BY <1>1, <2>1 DEF Together
    <2>3. ASSUME NEW b \in root', NEW s, Pending(todo, b, s)
          PROVE  s = w.scope /\ Pending(Tail(todo), b, s)
      <3>1. PICK i \in DOMAIN todo : todo[i].op = "move" /\ todo[i].book = b /\ todo[i].scope = s
        BY <2>3 DEF Pending
      <3>2. i # 1
        BY <1>2, <3>1
      <3>3. s = w.scope
        BY <1>2, <1>5, <1>8, <3>1
      <3>4. i - 1 \in DOMAIN Tail(todo) /\ Tail(todo)[i - 1] = todo[i]
        BY <1>5, <3>2
      <3>5. Pending(Tail(todo), b, s)
        BY <3>1, <3>4 DEF Pending
      <3> QED
        BY <3>3, <3>5
    <2>4. PICK z \in Scopes : z = w.scope
      BY <1>6
    <2>5. \A b \in root' : Pending(todo', b, w.scope)
      <3> SUFFICES ASSUME NEW b \in root'
                   PROVE  Pending(todo', b, w.scope)
        OBVIOUS
      <3>1. Pending(todo, b, w.scope)
        BY <1>2, <1>5, <2>2 DEF AllMove
      <3> QED
        BY <1>7, <2>3, <3>1
    <2>6. LegacyAt(z)'
      <3> SUFFICES ASSUME NEW t \in Scopes, NEW b \in BookFiles, dirs'[t][b] = "legacy"
                   PROVE  t = z
        BY DEF LegacyAt
      <3>1. CASE dirs[t][b] = "legacy"
        <4>1. PICK s \in Scopes : LegacyAt(s) /\ \A c \in root : Pending(todo, c, s)
          BY <2>2, <3>1 DEF Gathered, NoLegacy
        <4>2. t = s
          BY <3>1, <4>1 DEF LegacyAt
        <4>3. Pending(todo, w.book, s)
          BY <1>9, <4>1
        <4>4. PICK i \in DOMAIN todo : todo[i].op = "move" /\ todo[i].book = w.book /\ todo[i].scope = s
          BY <4>3 DEF Pending
        <4>5. s = w.scope
          BY <1>2, <1>5, <1>8, <4>4
        <4> QED
          BY <2>4, <4>2, <4>5
      <3>2. CASE dirs[t][b] # "legacy"
        BY <1>10, <2>4, <3>2
      <3> QED
        BY <3>1, <3>2
    <2>7. Gathered'
      <3>1. \A b \in root' : Pending(todo', b, z)
        BY <2>5, <2>4
      <3> QED
        BY <2>6, <3>1 DEF Gathered
    <2>8. AllMove'
      <3> SUFFICES ASSUME NEW i \in DOMAIN todo', todo'[i].op = "move", NEW b \in root'
                   PROVE  Pending(todo', b, todo'[i].scope)
        BY DEF AllMove
      <3>1. i + 1 \in DOMAIN todo /\ todo[i + 1] = todo'[i]
        BY <1>5, <1>7
      <3>2. todo'[i].scope = w.scope
        BY <1>2, <1>5, <1>8, <3>1
      <3> QED
        BY <2>5, <3>2
    <2> QED
      BY <2>7, <2>8
  <1> QED
    BY <1>3, <1>11, <1>12, <1>13, <1>14 DEF AccountsInv, TodoFrame

(* A book of a scope is begun or continued. *)
LEMMA BookKeeps ==
    ASSUME AccountsInv, WriteBook
    PROVE  AccountsInv'
  <1> DEFINE w == Write
  <1>1. /\ Base /\ RootFrame /\ Together /\ MoveFrame(todo)
    BY DEF AccountsInv, TodoFrame
  <1>2. /\ todo # <<>> /\ w.op = "book" /\ w = todo[1] /\ Advance
        /\ dirs' = [dirs EXCEPT ![w.scope][w.book] = IF dirs[w.scope][w.book] = None THEN "own"
                                                     ELSE dirs[w.scope][w.book]]
        /\ root' = root /\ auth' = auth /\ keyring' = keyring /\ given' = given /\ owners' = owners
    BY DEF WriteBook, Write, authVars, ghostVars
  <1>3. /\ Known' /\ OwnersMatch(auth.accounts, owners)'
        /\ AuthFrame(todo, cmd, minted)' /\ AllSafe(todo, cmd)'
    BY <1>2, BookLeaves
  <1>4. /\ todo \in Seq(Writes) /\ root \subseteq BookFiles
        /\ dirs \in [Scopes -> [BookFiles -> {None, "own", "legacy"}]]
    BY <1>1 DEF Base
  <1>5. /\ 1 \in DOMAIN todo /\ DOMAIN todo = 1..Len(todo) /\ Len(todo) \in Nat
        /\ \A i \in DOMAIN Tail(todo) : i + 1 \in DOMAIN todo /\ Tail(todo)[i] = todo[i + 1] /\ i \in Nat
        /\ \A i \in DOMAIN todo : todo[i] \in Writes
    BY <1>2, <1>4, RestOfWrites
  <1>6. w.book \in BookFiles /\ w.scope \in Scopes
    BY <1>2, <1>5, WriteKinds
  <1>7. /\ todo' = Tail(todo) /\ todo' \in Seq(Writes) /\ CommandType(cmd')
        /\ (cmd' = NoCommand => todo' = <<>>) /\ (todo' # <<>> => cmd' = cmd)
        /\ minted' = minted /\ kills' = kills /\ outages' = outages /\ available' = available
    BY <1>1, <1>2, StepOn
  <1>8. \A i \in DOMAIN todo : todo[i].op # "move"
    <2> SUFFICES ASSUME NEW i \in DOMAIN todo, todo[i].op = "move"
                 PROVE  FALSE
      OBVIOUS
    <2>1. i < 1
      BY <1>1, <1>2, <1>5 DEF MoveFrame
    <2> QED
      BY <1>5, <2>1
  <1>9. \A i \in DOMAIN todo' : todo'[i].op # "move"
    BY <1>5, <1>7, <1>8
  <1> HIDE DEF w
  <1>10. \A s \in Scopes, b \in BookFiles :
            \/ dirs'[s][b] = dirs[s][b]
            \/ dirs'[s][b] = "own"
    BY <1>2, <1>4, <1>6
  <1>11. Base'
    <2>1. dirs' \in [Scopes -> [BookFiles -> {None, "own", "legacy"}]]
      BY <1>2, <1>4, <1>6
    <2> QED
      BY <1>1, <1>2, <1>7, <2>1 DEF Base
  <1>12. MoveFrame(todo)'
    BY <1>9 DEF MoveFrame
  <1>13. RootFrame'
    <2> SUFFICES ASSUME NEW b \in root, NEW s \in Scopes
                 PROVE  dirs'[s][b] # "legacy"
      BY <1>2 DEF RootFrame
    <2>1. b \in BookFiles /\ dirs[s][b] # "legacy"
      BY <1>1, <1>4 DEF RootFrame
    <2> QED
      BY <1>10, <2>1
  <1>14. Together'
    <2> SUFFICES ASSUME kills = 0, NoOwn'
                 PROVE  Gathered' /\ AllMove'
      BY <1>7 DEF Together
    <2>1. dirs' = dirs
      <3>1. dirs'[w.scope][w.book] # "own"
        BY <1>6 DEF NoOwn
      <3>2. dirs[w.scope][w.book] # None
        BY <1>2, <1>4, <1>6, <3>1
      <3> QED
        BY <1>2, <1>4, <1>6, <3>2
    <2>2. NoOwn
      BY <2>1 DEF NoOwn
    <2>3. Gathered
      BY <1>1, <2>2 DEF Together
    <2>4. \A b, s : ~Pending(todo, b, s)
      BY <1>8 DEF Pending
    <2>5. Gathered'
      <3>1. CASE NoLegacy
        <4>1. NoLegacy'
          BY <2>1, <3>1 DEF NoLegacy
        <4> QED
          BY <4>1 DEF Gathered
      <3>2. CASE ~NoLegacy
        <4>1. PICK s \in Scopes : LegacyAt(s) /\ \A b \in root : Pending(todo, b, s)
          BY <2>3, <3>2 DEF Gathered
        <4>2. LegacyAt(s)'
          BY <2>1, <4>1 DEF LegacyAt
        <4>3. \A b \in root' : Pending(todo', b, s)
          BY <1>2, <2>4, <4>1
        <4> QED
          BY <4>2, <4>3 DEF Gathered
      <3> QED
        BY <3>1, <3>2
    <2>6. AllMove'
      BY <1>9 DEF AllMove
    <2> QED
      BY <2>5, <2>6
  <1> QED
    BY <1>3, <1>11, <1>12, <1>13, <1>14 DEF AccountsInv, TodoFrame

(* A command is killed, and what it had left is dropped. *)
LEMMA KillKeeps ==
    ASSUME AccountsInv, Kill
    PROVE  AccountsInv'
  <1>1. /\ auth' = auth /\ keyring' = keyring /\ given' = given /\ owners' = owners
        /\ root' = root /\ dirs' = dirs /\ available' = available /\ minted' = minted
        /\ outages' = outages /\ kills' = kills + 1 /\ kills < MaxKills
        /\ cmd' = NoCommand /\ todo' = <<>>
    BY DEF Kill, authVars, bookVars, ghostVars
  <1>2. /\ Base /\ Known /\ OwnersMatch(auth.accounts, owners) /\ RootFrame
    BY DEF AccountsInv
  <1>3. kills \in 0..MaxKills /\ MaxKills \in Nat
    BY <1>2, AccountsAssumption DEF Base
  <1>4. Base'
    <2>1. CommandType(NoCommand)
      BY DEF CommandType, NoCommand
    <2>2. <<>> \in Seq(Writes) /\ kills' \in 0..MaxKills
      BY <1>1, <1>3
    <2> QED
      BY <1>1, <1>2, <2>1, <2>2 DEF Base
  <1>5. TodoFrame(todo, cmd, minted)'
    <2>1. DOMAIN todo' = {}
      BY <1>1
    <2> QED
      BY <2>1 DEF TodoFrame, AuthFrame, AllSafe, MoveFrame
  <1>6. Known' /\ OwnersMatch(auth.accounts, owners)' /\ RootFrame'
    BY <1>1, <1>2 DEF Known, KeysOf, RootFrame
  <1>7. Together'
    <2>1. kills' # 0
      BY <1>1, <1>3
    <2> QED
      BY <2>1 DEF Together
  <1> QED
    BY <1>4, <1>5, <1>6, <1>7 DEF AccountsInv

(* The keyring goes away or comes back between two commands. *)
LEMMA KeyringKeeps ==
    ASSUME AccountsInv, KeyringChanges
    PROVE  AccountsInv'
  <1>1. /\ auth' = auth /\ keyring' = keyring /\ given' = given /\ owners' = owners
        /\ root' = root /\ dirs' = dirs /\ minted' = minted /\ kills' = kills
        /\ cmd' = cmd /\ todo' = todo /\ cmd = NoCommand /\ available' = ~available
        /\ (available => kills + outages < MaxFaults)
        /\ outages' = IF available THEN outages + 1 ELSE outages
    BY DEF KeyringChanges, authVars, bookVars, ghostVars
  <1>2. /\ Base /\ Known /\ OwnersMatch(auth.accounts, owners) /\ RootFrame /\ Together
    BY DEF AccountsInv
  <1>3. /\ kills \in Nat /\ outages \in 0..MaxFaults /\ MaxFaults \in Nat /\ todo = <<>>
        /\ available \in BOOLEAN
    BY <1>1, <1>2, AccountsAssumption DEF Base
  <1>4. outages' \in 0..MaxFaults
    BY <1>1, <1>3
  <1>5. Base'
    BY <1>1, <1>2, <1>3, <1>4 DEF Base
  <1>6. TodoFrame(todo, cmd, minted)'
    <2>1. DOMAIN todo' = {}
      BY <1>1, <1>3
    <2> QED
      BY <2>1 DEF TodoFrame, AuthFrame, AllSafe, MoveFrame
  <1>7. Known' /\ OwnersMatch(auth.accounts, owners)' /\ RootFrame'
    BY <1>1, <1>2 DEF Known, KeysOf, RootFrame
  <1>8. Together'
    BY <1>1, <1>2 DEF Together, NoOwn, Gathered, AllMove, NoLegacy, LegacyAt
  <1> QED
    BY <1>5, <1>6, <1>7, <1>8 DEF AccountsInv

----------------------------------------------------------------------------
(* A command starts. *)

(* Every secret of W that is not in the keyring yet may be written. *)
SafeChanges(W, c) ==
    \A i \in DOMAIN W : W[i].op = "secret" /\ Changes(W[i]) => SafeAt(W, i, c)

Changing(W) == {i \in DOMAIN W : Changes(W[i])}

(* Of the writes of a command those that change something are left, in their
   order, and all that are not of a secret. *)
LEMMA ChangingWrites ==
    ASSUME NEW W \in Seq(Writes), NEW V, V = Picked(W, Changing(W)),
           NEW at, at = Ascending(Changing(W))
    PROVE  /\ V \in Seq(Writes)
           /\ \A k \in DOMAIN V : k \in Nat /\ k > 0 /\ at[k] \in DOMAIN W /\ V[k] = W[at[k]]
                                  /\ at[k] \in Nat /\ at[k] > 0 /\ Changes(W[at[k]])
           /\ \A j, k \in DOMAIN V : j < k <=> at[j] < at[k]
           /\ \A i \in DOMAIN W : Changes(W[i]) => \E k \in DOMAIN V : at[k] = i
           /\ \E n \in Nat : DOMAIN V = 1..n
  <1> DEFINE I == Changing(W)
             n == Cardinality(I)
  <1>1. I \in SUBSET DOMAIN W /\ \A i \in DOMAIN W : i \in I <=> Changes(W[i])
    BY DEF Changing
  <1>2. DOMAIN W = 1..Len(W) /\ Len(W) \in Nat
    OBVIOUS
  <1> HIDE DEF I
  <1>3. /\ Picked(W, I) \in Seq(Writes)
        /\ DOMAIN Picked(W, I) = 1..n /\ n \in Nat
        /\ Ascending(I) \in [1..n -> I]
        /\ \A k \in 1..n : Picked(W, I)[k] = W[Ascending(I)[k]]
        /\ \A k, m \in 1..n : k < m => Ascending(I)[k] < Ascending(I)[m]
        /\ \A i \in I : \E k \in 1..n : Ascending(I)[k] = i
    BY <1>1, PickedLists
  <1>4. V = Picked(W, I) /\ at = Ascending(I)
    BY DEF I
  <1> HIDE DEF n
  <1>5. V \in Seq(Writes) /\ DOMAIN V = 1..n
    BY <1>3, <1>4
  <1>6. \A k \in 1..n : at[k] \in I
    BY <1>3, <1>4
  <1>7. \A k \in DOMAIN V : k \in Nat /\ k > 0 /\ at[k] \in DOMAIN W /\ V[k] = W[at[k]]
                            /\ at[k] \in Nat /\ at[k] > 0 /\ Changes(W[at[k]])
    <2> SUFFICES ASSUME NEW k \in 1..n
                 PROVE  k \in Nat /\ k > 0 /\ at[k] \in DOMAIN W /\ V[k] = W[at[k]]
                            /\ at[k] \in Nat /\ at[k] > 0 /\ Changes(W[at[k]])
      BY <1>5
    <2>1. at[k] \in I /\ V[k] = W[at[k]]
      BY <1>3, <1>4, <1>6
    <2>2. at[k] \in DOMAIN W /\ Changes(W[at[k]])
      BY <1>1, <2>1
    <2> QED
      BY <1>2, <1>3, <2>1, <2>2
  <1>8. \A j, k \in DOMAIN V : j < k <=> at[j] < at[k]
    <2> SUFFICES ASSUME NEW j \in 1..n, NEW k \in 1..n
                 PROVE  j < k <=> at[j] < at[k]
      BY <1>5
    <2>1. at[j] \in Nat /\ at[k] \in Nat /\ j \in Nat /\ k \in Nat
      BY <1>5, <1>7
    <2>2. (j < k => at[j] < at[k]) /\ (k < j => at[k] < at[j])
      BY <1>3, <1>4
    <2>3. j = k => at[j] = at[k]
      OBVIOUS
    <2> QED
      BY <2>1, <2>2, <2>3
  <1>9. \A i \in DOMAIN W : Changes(W[i]) => \E k \in DOMAIN V : at[k] = i
    BY <1>1, <1>3, <1>4, <1>5
  <1> QED
    BY <1>3, <1>5, <1>7, <1>8, <1>9

(* They are as good as all. *)
LEMMA ChangingFrame ==
    ASSUME NEW W \in Seq(Writes), NEW c, NEW m, NEW V, V = Picked(W, Changing(W)),
           AuthFrame(W, c, m), MoveFrame(W), SafeChanges(W, c)
    PROVE  AuthFrame(V, c, m) /\ MoveFrame(V) /\ AllSafe(V, c)
  <1>1. PICK at : at = Ascending(Changing(W))
    OBVIOUS
  <1>2. /\ V \in Seq(Writes)
        /\ \A k \in DOMAIN V : k \in Nat /\ k > 0 /\ at[k] \in DOMAIN W /\ V[k] = W[at[k]]
                               /\ at[k] \in Nat /\ at[k] > 0 /\ Changes(W[at[k]])
        /\ \A j, k \in DOMAIN V : j < k <=> at[j] < at[k]
        /\ \A i \in DOMAIN W : Changes(W[i]) => \E k \in DOMAIN V : at[k] = i
    BY <1>1, ChangingWrites
  <1>3. PICK n \in Nat : DOMAIN V = 1..n
    BY <1>1, ChangingWrites
  <1>4. ASSUME NEW j \in DOMAIN V, NEW k \in DOMAIN V, at[j] = at[k]
        PROVE  j = k
    <2>1. ~(j < k) /\ ~(k < j) /\ j \in Nat /\ k \in Nat
      BY <1>2, <1>4
    <2> QED
      BY <2>1
  <1>5. ASSUME NEW k \in DOMAIN V, NEW i \in 1..(k - 1)
        PROVE  i \in DOMAIN V /\ at[i] \in 1..(at[k] - 1) /\ V[i] = W[at[i]]
    <2>1. i \in DOMAIN V /\ i < k
      BY <1>3
    <2> QED
      BY <1>2, <2>1
  <1>6. ASSUME NEW k \in DOMAIN V, NEW i \in 1..(at[k] - 1), Changes(W[i])
        PROVE  \E j \in 1..(k - 1) : at[j] = i /\ V[j] = W[i]
    <2>1. i \in DOMAIN W
      <3>1. at[k] \in DOMAIN W /\ DOMAIN W = 1..Len(W) /\ Len(W) \in Nat
        BY <1>2
      <3> QED
        BY <3>1
    <2>2. PICK j \in DOMAIN V : at[j] = i
      BY <1>2, <1>6, <2>1
    <2>3. at[j] < at[k]
      BY <1>2, <2>2
    <2>4. j < k /\ j \in Nat /\ k \in Nat /\ j > 0
      BY <1>2, <2>3
    <2>5. j \in 1..(k - 1) /\ V[j] = W[i]
      BY <1>2, <2>2, <2>4
    <2> QED
      BY <2>2, <2>5
  <1>7. ASSUME NEW k \in DOMAIN V, NEW s, NEW v, Settles(keyring, W, at[k], s, v)
        PROVE  Settles(keyring, V, k, s, v)
    <2> SUFFICES ASSUME NEW p \in Range(Parts)
                 PROVE  /\ \A i \in 1..(k - 1) :
                              V[i].op = "secret" /\ V[i].name = s /\ V[i].part = p => V[i].value = v[p]
                        /\ \/ keyring[s][p] = v[p]
                           \/ \E i \in 1..(k - 1) : V[i].op = "secret" /\ V[i].name = s /\ V[i].part = p
      BY DEF Settles
    <2>1. /\ \A i \in 1..(at[k] - 1) :
                W[i].op = "secret" /\ W[i].name = s /\ W[i].part = p => W[i].value = v[p]
          /\ \/ keyring[s][p] = v[p]
             \/ \E i \in 1..(at[k] - 1) : W[i].op = "secret" /\ W[i].name = s /\ W[i].part = p
      BY <1>7 DEF Settles
    <2>2. \A i \in 1..(k - 1) : V[i].op = "secret" /\ V[i].name = s /\ V[i].part = p => V[i].value = v[p]
      BY <1>5, <2>1
    <2>3. \/ keyring[s][p] = v[p]
          \/ \E i \in 1..(k - 1) : V[i].op = "secret" /\ V[i].name = s /\ V[i].part = p
      <3> SUFFICES ASSUME keyring[s][p] # v[p]
                   PROVE  \E i \in 1..(k - 1) : V[i].op = "secret" /\ V[i].name = s /\ V[i].part = p
        OBVIOUS
      <3>1. PICK i \in 1..(at[k] - 1) : W[i].op = "secret" /\ W[i].name = s /\ W[i].part = p
        BY <2>1
      <3>2. W[i].value = v[p]
        BY <2>1, <3>1
      <3>3. Changes(W[i])
        BY <3>1, <3>2 DEF Changes
      <3> QED
        BY <1>6, <3>1, <3>3
    <2> QED
      BY <2>2, <2>3
  <1>8. ASSUME NEW k \in DOMAIN V, V[k].op = "auth"
        PROVE  AuthGood(V, k, c, m)
    <2>1. V[k] = W[at[k]] /\ at[k] \in DOMAIN W
      BY <1>2
    <2>2. AuthGood(W, at[k], c, m)
      BY <1>8, <2>1 DEF AuthFrame
    <2>3. Restores(V, k, c)
      BY <1>7, <2>1, <2>2 DEF AuthGood, Restores
    <2> QED
      BY <2>1, <2>2, <2>3 DEF AuthGood
  <1>9. AuthFrame(V, c, m)
    <2>1. ASSUME NEW j \in DOMAIN V, NEW k \in DOMAIN V, V[j].op = "auth", V[k].op = "auth"
          PROVE  j = k
      <3>1. at[j] = at[k]
        BY <1>2, <2>1 DEF AuthFrame
      <3> QED
        BY <1>4, <3>1
    <2> QED
      BY <1>8, <2>1 DEF AuthFrame
  <1>10. MoveFrame(V)
    <2>1. \A i \in DOMAIN V : V[i].op = "move" => V[i].book \in root /\ dirs[V[i].scope][V[i].book] = None
      BY <1>2 DEF MoveFrame
    <2>2. ASSUME NEW i \in DOMAIN V, NEW j \in DOMAIN V, V[i].op = "move", V[j].op = "move"
          PROVE  V[i].scope = V[j].scope /\ (V[i].book = V[j].book => i = j)
      <3>1. V[i].scope = V[j].scope /\ (V[i].book = V[j].book => at[i] = at[j])
        <4>1. /\ V[i] = W[at[i]] /\ at[i] \in DOMAIN W
              /\ V[j] = W[at[j]] /\ at[j] \in DOMAIN W
          BY <1>2
        <4>2. W[at[i]].op = "move" /\ W[at[j]].op = "move"
          BY <2>2, <4>1
        <4>3. /\ W[at[i]].scope = W[at[j]].scope
              /\ W[at[i]].book = W[at[j]].book => at[i] = at[j]
          BY <4>1, <4>2 DEF MoveFrame
        <4> QED
          BY <4>1, <4>3
      <3> QED
        BY <1>4, <3>1
    <2>3. ASSUME NEW i \in DOMAIN V, NEW j \in DOMAIN V, V[i].op = "move", V[j].op = "book"
          PROVE  i < j
      <3>1. at[i] < at[j]
        BY <1>2, <2>3 DEF MoveFrame
      <3> QED
        BY <1>2, <3>1
    <2> QED
      BY <2>1, <2>2, <2>3 DEF MoveFrame
  <1>11. ASSUME NEW k \in DOMAIN V, V[k].op = "secret"
         PROVE  SafeAt(V, k, c)
    <2>1. V[k] = W[at[k]] /\ at[k] \in DOMAIN W /\ Changes(W[at[k]])
      BY <1>2
    <2>2. SafeAt(W, at[k], c)
      BY <1>11, <2>1 DEF SafeChanges
    <2>3. ASSUME \A j \in 1..(k - 1) : V[j].op # "auth"
          PROVE  Safe(c, V[k].name)
      <3>1. ASSUME NEW i \in 1..(at[k] - 1), W[i].op = "auth"
            PROVE  FALSE
        <4>1. Changes(W[i])
          BY <3>1 DEF Changes
        <4> QED
          BY <1>6, <2>3, <3>1, <4>1
      <3> QED
        BY <2>1, <2>2, <3>1 DEF SafeAt
    <2>4. ASSUME NEW j \in 1..(k - 1), V[j].op = "auth"
          PROVE  V[k].name \notin NamesIn(V[j].file.accounts)
      <3>1. at[j] \in 1..(at[k] - 1) /\ V[j] = W[at[j]]
        BY <1>5
      <3> QED
        BY <2>1, <2>2, <2>4, <3>1 DEF SafeAt
    <2> QED
      BY <2>3, <2>4 DEF SafeAt
  <1> QED
    BY <1>9, <1>10, <1>11 DEF AllSafe

(* Command c may start with writes W: every write of it is as the invariant
   asks, with the ids minted up to m. *)
Ready(W, c, m) ==
    /\ W \in Seq(Writes)
    /\ CommandType(c) /\ c # NoCommand
    /\ m \in minted..MaxIds
    /\ AuthFrame(W, c, m) /\ MoveFrame(W) /\ SafeChanges(W, c)
    /\ NoOwn => \A i \in DOMAIN W : W[i].op = "move" => \A b \in root : Pending(W, b, W[i].scope)

(* A command that may start keeps the invariant. *)
LEMMA StartKeeps ==
    ASSUME AccountsInv, cmd = NoCommand, NEW W, NEW c, Start(c, W), Ready(W, c, minted')
    PROVE  AccountsInv'
  <1>1. /\ auth' = auth /\ keyring' = keyring /\ given' = given /\ owners' = owners
        /\ root' = root /\ dirs' = dirs /\ available' = available
        /\ outages' = outages /\ kills' = kills
        /\ todo' = Picked(W, Changing(W)) /\ cmd' = IF todo' = <<>> THEN NoCommand ELSE c
    BY DEF Start, authVars, bookVars, ghostVars, boundVars, Changing
  <1>2. /\ Base /\ Known /\ OwnersMatch(auth.accounts, owners) /\ RootFrame /\ Together
    BY DEF AccountsInv
  <1>3. PICK m : m = minted'
    OBVIOUS
  <1>4. /\ W \in Seq(Writes) /\ CommandType(c) /\ c # NoCommand /\ m \in minted..MaxIds
        /\ AuthFrame(W, c, m) /\ MoveFrame(W) /\ SafeChanges(W, c)
    BY <1>3 DEF Ready
  <1>5. PICK V : V = Picked(W, Changing(W))
    OBVIOUS
  <1>6. AuthFrame(V, c, m) /\ MoveFrame(V) /\ AllSafe(V, c)
    BY <1>4, <1>5, ChangingFrame
  <1>7. PICK at : at = Ascending(Changing(W))
    OBVIOUS
  <1>8. /\ V \in Seq(Writes)
        /\ \A k \in DOMAIN V : at[k] \in DOMAIN W /\ V[k] = W[at[k]]
        /\ \A i \in DOMAIN W : Changes(W[i]) => \E k \in DOMAIN V : at[k] = i
    BY <1>4, <1>5, <1>7, ChangingWrites
  <1>9. todo' = V /\ cmd' = IF V = <<>> THEN NoCommand ELSE c
    BY <1>1, <1>5
  <1>10. minted \in Nat /\ MaxIds \in Nat /\ minted <= m /\ m \in 0..MaxIds
    BY <1>2, <1>4, AccountsAssumption DEF Base
  <1>11. Base'
    <2>1. CommandType(cmd')
      BY <1>4, <1>9 DEF CommandType, NoCommand
    <2>2. SoundFile(auth, m)
      <3>1. SoundFile(auth, minted)
        BY <1>2 DEF Base
      <3>2. ASSUME NEW i \in DOMAIN auth.accounts
            PROVE  auth.accounts[i].id <= m
        <4>1. auth.accounts \in Seq(Account)
          BY <3>1 DEF SoundFile, File
        <4>2. auth.accounts[i] \in Account
          BY <4>1
        <4>3. auth.accounts[i].id \in Nat /\ auth.accounts[i].id <= minted
          BY <1>10, <3>1, <4>2 DEF SoundFile, Account
        <4> QED
          BY <1>10, <4>3
      <3> QED
        BY <3>1, <3>2 DEF SoundFile
    <2>3. cmd' = NoCommand => todo' = <<>>
      BY <1>4, <1>9
    <2>4. SoundFile(auth', minted') /\ minted' \in 0..MaxIds /\ todo' \in Seq(Writes)
      BY <1>1, <1>3, <1>8, <1>9, <1>10, <2>2
    <2> QED
      BY <1>1, <1>2, <2>1, <2>3, <2>4 DEF Base
  <1>12. Known' /\ OwnersMatch(auth.accounts, owners)' /\ RootFrame'
    BY <1>1, <1>2 DEF Known, KeysOf, RootFrame
  <1>13. AuthFrame(todo, cmd, minted)'
    <2>1. ASSUME NEW k \in DOMAIN V, V[k].op = "auth"
          PROVE  AuthGood(todo, k, cmd, minted)'
      <3>1. PICK f : f = V[k].file
        OBVIOUS
      <3>2. cmd' = c /\ todo'[k].file = f /\ V # <<>>
        BY <1>9, <2>1, <3>1
      <3>3. /\ SoundFile(f, m) /\ f.exists /\ Restores(V, k, c) /\ KeepsIds(c, f)
            /\ OwnersMatch(f.accounts, OwnersFor(c, f))
        BY <1>6, <2>1, <3>1 DEF AuthFrame, AuthGood
      <3>4. GivenFor(c, f)' = GivenFor(c, f) /\ OwnersFor(c, f)' = OwnersFor(c, f)
        BY <1>1 DEF GivenFor, OwnersFor
      <3>5. Restores(todo, k, cmd)'
        <4>1. GivenFor(cmd, f)' = GivenFor(c, f)
          BY <3>2, <3>4 DEF GivenFor
        <4> QED
          BY <1>1, <1>9, <3>1, <3>2, <3>3, <4>1 DEF Restores
      <3>6. KeepsIds(cmd, f)'
        BY <1>1, <3>2, <3>3 DEF KeepsIds
      <3>7. OwnersMatch(f.accounts, OwnersFor(cmd, f))'
        <4>1. OwnersFor(cmd, f)' = OwnersFor(c, f)
          BY <3>2, <3>4 DEF OwnersFor
        <4> QED
          BY <3>3, <4>1
      <3> QED
        BY <1>3, <3>2, <3>3, <3>5, <3>6, <3>7 DEF AuthGood
    <2>2. \A j, k \in DOMAIN V : V[j].op = "auth" /\ V[k].op = "auth" => j = k
      BY <1>6 DEF AuthFrame
    <2> QED
      BY <1>9, <2>1, <2>2 DEF AuthFrame
  <1>14. AllSafe(todo, cmd)'
    <2> SUFFICES ASSUME NEW i \in DOMAIN V, V[i].op = "secret"
                 PROVE  SafeAt(todo, i, cmd)'
      BY <1>9 DEF AllSafe
    <2>1. SafeAt(V, i, c) /\ cmd' = c
      BY <1>6, <1>9 DEF AllSafe
    <2> QED
      BY <1>1, <1>9, <2>1 DEF SafeAt, Safe
  <1>15. MoveFrame(todo)'
    BY <1>1, <1>6, <1>9 DEF MoveFrame
  <1>16. Together'
    <2> SUFFICES ASSUME kills = 0, NoOwn'
                 PROVE  Gathered' /\ AllMove'
      BY <1>1 DEF Together
    <2>1. NoOwn
      BY <1>1 DEF NoOwn
    <2>2. Gathered /\ todo = <<>>
      BY <1>2, <2>1 DEF Together, Base
    <2>3. NoLegacy \/ root = {}
      BY <2>2 DEF Gathered, Pending
    <2>4. Gathered'
      <3>1. CASE NoLegacy
        <4>1. NoLegacy'
          BY <1>1, <3>1 DEF NoLegacy
        <4> QED
          BY <4>1 DEF Gathered
      <3>2. CASE ~NoLegacy
        <4>1. PICK s \in Scopes : LegacyAt(s)
          BY <2>2, <3>2 DEF Gathered
        <4>2. LegacyAt(s)'
          BY <1>1, <4>1 DEF LegacyAt
        <4>3. root' = {}
          BY <1>1, <2>3, <3>2
        <4> QED
          BY <4>2, <4>3 DEF Gathered
      <3> QED
        BY <3>1, <3>2
    <2>5. AllMove'
      <3> SUFFICES ASSUME NEW i \in DOMAIN V, V[i].op = "move", NEW b \in root
                   PROVE  Pending(V, b, V[i].scope)
        BY <1>1, <1>9 DEF AllMove
      <3>1. Pending(W, b, V[i].scope)
        <4>1. at[i] \in DOMAIN W /\ V[i] = W[at[i]]
          BY <1>8
        <4> QED
          BY <2>1, <4>1 DEF Ready
      <3>2. PICK j \in DOMAIN W : W[j].op = "move" /\ W[j].book = b /\ W[j].scope = V[i].scope
        BY <3>1 DEF Pending
      <3>3. Changes(W[j])
        BY <3>2 DEF Changes
      <3>4. PICK k \in DOMAIN V : at[k] = j
        BY <1>8, <3>3
      <3>5. V[k] = W[j]
        BY <1>8, <3>4
      <3> QED
        BY <3>2, <3>5 DEF Pending
    <2> QED
      BY <2>4, <2>5
  <1> QED
    BY <1>11, <1>12, <1>13, <1>14, <1>15, <1>16 DEF AccountsInv, TodoFrame

----------------------------------------------------------------------------
(* The writes of a list of accounts. *)

(* The auth.json a list of accounts is written as. *)
FileOf(s, active, backend) ==
    [exists |-> TRUE, backend |-> backend, active |-> active,
     accounts |-> [i \in DOMAIN s |-> Entry(s[i], backend)]]

(* All accounts are in the file, and as they are but for their keys. *)
LEMMA FileOfIs ==
    ASSUME NEW s \in Seq(Account), NEW active \in Names \cup {None}, NEW backend \in {"file", "keyring"},
           NEW f, f = FileOf(s, active, backend)
    PROVE  /\ f \in File /\ f.exists /\ f.backend = backend /\ f.active = active
           /\ DOMAIN f.accounts = DOMAIN s
           /\ \A i \in DOMAIN s : /\ f.accounts[i].name = s[i].name /\ f.accounts[i].id = s[i].id
                                  /\ f.accounts[i].ref = s[i].ref
                                  /\ backend = "file" => f.accounts[i].keys = s[i].keys
           /\ NamesIn(f.accounts) = NamesIn(s)
           /\ (f.accounts = <<>>) = (s = <<>>)
  <1> DEFINE t == [i \in DOMAIN s |-> Entry(s[i], backend)]
  <1>1. NoKeys \in Keys
    BY DEF NoKeys, Keys, Values
  <1>2. ASSUME NEW i \in DOMAIN s
        PROVE  /\ t[i] \in Account /\ t[i].name = s[i].name /\ t[i].id = s[i].id /\ t[i].ref = s[i].ref
               /\ backend = "file" => t[i].keys = s[i].keys
    <2>1. s[i] \in Account
      OBVIOUS
    <2>2. t[i] = IF backend = "keyring" THEN [s[i] EXCEPT !.keys = NoKeys] ELSE s[i]
      BY DEF Entry
    <2> HIDE DEF t
    <2> QED
      BY <1>1, <2>1, <2>2 DEF Account
  <1>3. t \in [1..Len(s) -> Account] /\ DOMAIN t = 1..Len(s) /\ DOMAIN s = 1..Len(s) /\ Len(s) \in Nat
    BY <1>2
  <1>4. /\ f.exists = TRUE /\ f.backend = backend /\ f.active = active /\ f.accounts = t
        /\ f = [exists |-> TRUE, backend |-> backend, active |-> active, accounts |-> t]
    BY DEF FileOf
  <1> HIDE DEF t
  <1>5. t \in Seq(Account) /\ Len(t) = Len(s)
    BY <1>3
  <1>6. f \in File
    BY <1>4, <1>5 DEF File
  <1>7. NamesIn(t) = NamesIn(s)
    BY <1>2, <1>3 DEF NamesIn
  <1>8. (t = <<>>) = (s = <<>>)
    BY <1>3, <1>5
  <1> QED
    BY <1>2, <1>3, <1>4, <1>6, <1>7, <1>8

(* Secret w is a part of the credentials of an account of s. *)
PartOf(w, s) == \E a \in DOMAIN s : w.name = s[a].name /\ w.value = s[a].keys[w.part]

(* Each part of the credentials of each account goes to the keyring. *)
LEMMA SecretsAre ==
    ASSUME NEW s \in Seq(Account), NEW t, t = Secrets(s, "keyring")
    PROVE  /\ t \in Seq(Writes)
           /\ \A i \in DOMAIN t : t[i].op = "secret" /\ PartOf(t[i], s)
           /\ \A a \in DOMAIN s, p \in Range(Parts) : \E i \in DOMAIN t :
                 t[i].op = "secret" /\ t[i].name = s[a].name /\ t[i].part = p
           /\ Len(t) \in Nat /\ DOMAIN t = 1..Len(t)
  <1> DEFINE n == 2 * Len(s)
             put(i) == PutSecret(s[((i - 1) \div 2) + 1].name, Parts[((i - 1) % 2) + 1],
                                 s[((i - 1) \div 2) + 1].keys[Parts[((i - 1) % 2) + 1]])
  <1>1. t = [i \in 1..n |-> put(i)]
    BY PartsAre DEF Secrets
  <1>2. Len(s) \in Nat /\ DOMAIN s = 1..Len(s) /\ n \in Nat
    OBVIOUS
  <1>3. ASSUME NEW i \in 1..n
        PROVE  /\ ((i - 1) \div 2) + 1 \in 1..Len(s) /\ ((i - 1) % 2) + 1 \in 1..2
    <2>1. i - 1 \in 0..(n - 1)
      BY <1>2
    <2> QED
      BY <1>2, <2>1
  <1>4. ASSUME NEW i \in 1..n
        PROVE  /\ t[i] \in SecretWrites
               /\ t[i].op = "secret" /\ PartOf(t[i], s)
    <2>1. PICK a \in DOMAIN s : a = ((i - 1) \div 2) + 1
      BY <1>2, <1>3
    <2>2. PICK p \in Range(Parts) : p = Parts[((i - 1) % 2) + 1]
      <3>1. ((i - 1) % 2) + 1 \in DOMAIN Parts
        BY <1>3, PartsAre
      <3> QED
        BY <3>1 DEF Range
    <2>3. t[i] = [op |-> "secret", name |-> s[a].name, part |-> p, value |-> s[a].keys[p]]
      BY <1>1, <2>1, <2>2 DEF PutSecret
    <2>4. s[a] \in Account
      OBVIOUS
    <2>5. s[a].name \in Names /\ s[a].keys[p] \in Values
      BY <2>4 DEF Account, Keys
    <2> QED
      BY <2>3, <2>5 DEF SecretWrites, PartOf
  <1>5. ASSUME NEW a \in DOMAIN s, NEW p \in Range(Parts)
        PROVE  \E i \in 1..n : t[i].op = "secret" /\ t[i].name = s[a].name /\ t[i].part = p
    <2>1. PICK q \in 1..2 : Parts[q] = p
      BY PartsAre DEF Range
    <2> DEFINE i == 2 * (a - 1) + q
    <2>2. a \in Nat /\ a > 0 /\ a <= Len(s)
      BY <1>2
    <2>3. i \in 1..n
      BY <1>2, <2>2
    <2>4. ((i - 1) \div 2) + 1 = a /\ ((i - 1) % 2) + 1 = q
      <3>1. CASE q = 1
        <4>1. i - 1 = 2 * (a - 1)
          BY <2>2, <3>1
        <4>2. (2 * (a - 1)) \div 2 = a - 1 /\ (2 * (a - 1)) % 2 = 0
          BY <2>2
        <4> HIDE DEF i
        <4> QED
          BY <2>2, <3>1, <4>1, <4>2
      <3>2. CASE q = 2
        <4>1. i - 1 = 2 * (a - 1) + 1
          BY <2>2, <3>2
        <4>2. (2 * (a - 1) + 1) \div 2 = a - 1 /\ (2 * (a - 1) + 1) % 2 = 1
          BY <2>2
        <4> HIDE DEF i
        <4>3. (i - 1) \div 2 = a - 1 /\ (i - 1) % 2 = 1
          BY <4>1, <4>2
        <4> QED
          BY <2>2, <3>2, <4>3
      <3> QED
        BY <3>1, <3>2
    <2> HIDE DEF i
    <2>5. t[i] = PutSecret(s[a].name, p, s[a].keys[p])
      BY <1>1, <2>1, <2>3, <2>4
    <2> QED
      BY <2>3, <2>5 DEF PutSecret
  <1> HIDE DEF n, put
  <1>6. t \in [1..n -> SecretWrites] /\ DOMAIN t = 1..n
    BY <1>1, <1>4
  <1>7. t \in Seq(SecretWrites) /\ Len(t) = n
    BY <1>2, <1>6
  <1>8. t \in Seq(Writes)
    BY <1>7 DEF Writes
  <1>9. \A i \in DOMAIN t : t[i].op = "secret" /\ PartOf(t[i], s)
    BY <1>4, <1>6
  <1>10. \A a \in DOMAIN s, p \in Range(Parts) : \E i \in DOMAIN t :
            t[i].op = "secret" /\ t[i].name = s[a].name /\ t[i].part = p
    <2> SUFFICES ASSUME NEW a \in DOMAIN s, NEW p \in Range(Parts)
                 PROVE  \E i \in DOMAIN t : t[i].op = "secret" /\ t[i].name = s[a].name /\ t[i].part = p
      OBVIOUS
    <2>1. PICK i \in 1..n : t[i].op = "secret" /\ t[i].name = s[a].name /\ t[i].part = p
      BY <1>5
    <2> QED
      BY <1>6, <2>1
  <1>11. Len(t) \in Nat /\ DOMAIN t = 1..Len(t)
    BY <1>2, <1>6, <1>7
  <1> QED
    BY <1>8, <1>9, <1>10, <1>11

(* Write k of W, and no other, is of the file with the accounts s. *)
FileAt(W, k, s, active, backend) ==
    /\ k \in DOMAIN W
    /\ W[k].op = "auth" /\ W[k].file = FileOf(s, active, backend)
    /\ \A i \in DOMAIN W : i # k => W[i].op # "auth"

(* The secrets it writes are those of s, before the file, or of gone. *)
SecretsOf(W, k, s, backend, gone) ==
    \A i \in DOMAIN W : W[i].op = "secret" =>
        /\ backend = "keyring"
        /\ \/ i < k /\ PartOf(W[i], s)
           \/ W[i].name \in gone

(* It writes all of those of s. *)
Covers(W, k, s, backend) ==
    backend = "keyring" => \A a \in DOMAIN s, p \in Range(Parts) : \E i \in 1..(k - 1) :
        W[i].op = "secret" /\ W[i].name = s[a].name /\ W[i].part = p

(* W writes the accounts s, with the file as write k. *)
Shape(W, k, s, active, backend, gone) ==
    /\ W \in Seq(Writes)
    /\ FileAt(W, k, s, active, backend)
    /\ SecretsOf(W, k, s, backend, gone)
    /\ Covers(W, k, s, backend)

(* W is one _write of s: secrets first, the file last, and nothing else. *)
WellWritten(W, s, active, backend, gone) ==
    /\ Shape(W, Len(W), s, active, backend, gone)
    /\ Len(W) \in Nat /\ Len(W) > 0 /\ DOMAIN W = 1..Len(W)
    /\ \A i \in DOMAIN W : W[i].op \in {"secret", "auth"}

(* _write is well written. *)
LEMMA WrittenHasShape ==
    ASSUME NEW s \in Seq(Account), NEW active \in Names \cup {None},
           NEW backend \in {"file", "keyring"}, NEW gone,
           NEW W, W = Written(s, active, backend)
    PROVE  WellWritten(W, s, active, backend, gone)
  <1> DEFINE t == Secrets(s, backend)
             e == [op |-> "auth", file |-> FileOf(s, active, backend)]
             u == <<e>>
             k == Len(t) + 1
  <1>1. W = t \o u
    BY DEF Written, FileOf
  <1>2. /\ t \in Seq(Writes) /\ Len(t) \in Nat /\ DOMAIN t = 1..Len(t)
        /\ \A i \in DOMAIN t : t[i].op = "secret"
        /\ backend = "file" => Len(t) = 0
    <2>1. CASE backend = "keyring"
      <3>1. t = Secrets(s, "keyring")
        BY <2>1
      <3> HIDE DEF t
      <3> QED
        BY <2>1, <3>1, SecretsAre
    <2>2. CASE backend = "file"
      <3>1. t = <<>>
        BY <2>2 DEF Secrets
      <3> HIDE DEF t
      <3> QED
        BY <3>1
    <2> QED
      BY <2>1, <2>2
  <1>3. e \in Writes
    BY FileOfIs DEF Writes, AuthWrites
  <1>4. u \in Seq(Writes) /\ Len(u) = 1 /\ u[1] = e
    BY <1>3
  <1>5. e.op = "auth" /\ e.file = FileOf(s, active, backend)
    OBVIOUS
  <1> HIDE DEF t, e, u
  <1>6. /\ W \in Seq(Writes) /\ Len(W) = k
        /\ \A i \in 1..Len(t) : W[i] = t[i]
        /\ W[k] = e
    <2>1. /\ t \o u \in Seq(Writes) /\ Len(t \o u) = Len(t) + Len(u)
          /\ \A i \in 1..Len(t) : (t \o u)[i] = t[i]
          /\ \A i \in 1..Len(u) : (t \o u)[Len(t) + i] = u[i]
      <3>1. t \in Seq(Writes) /\ u \in Seq(Writes)
        BY <1>2, <1>4
      <3> QED
        BY <3>1, JoinedLists
    <2>2. 1 \in 1..Len(u)
      BY <1>4
    <2>3. (t \o u)[Len(t) + 1] = e
      BY <1>4, <2>1, <2>2
    <2> QED
      BY <1>1, <1>4, <2>1, <2>3
  <1>7. k \in Nat /\ k > 0 /\ DOMAIN W = 1..k /\ k - 1 = Len(t)
    BY <1>2, <1>6
  <1>8. ASSUME NEW i \in DOMAIN W, i # k
        PROVE  i \in DOMAIN t /\ W[i] = t[i] /\ i < k
    BY <1>2, <1>6, <1>7, <1>8
  <1>9. \A i \in DOMAIN t : i \in 1..(k - 1) /\ W[i] = t[i]
    BY <1>2, <1>6, <1>7
  <1> HIDE DEF k
  <1>10. FileAt(W, k, s, active, backend)
    BY <1>2, <1>5, <1>6, <1>7, <1>8 DEF FileAt
  <1>11. SecretsOf(W, k, s, backend, gone)
    <2> SUFFICES ASSUME NEW i \in DOMAIN W, W[i].op = "secret"
                 PROVE  backend = "keyring" /\ i < k /\ PartOf(W[i], s)
      BY DEF SecretsOf
    <2>1. i # k
      BY <1>5, <1>6
    <2>2. i \in DOMAIN t /\ W[i] = t[i] /\ i < k
      BY <1>8, <2>1
    <2>3. backend = "keyring"
      BY <1>2, <2>2
    <2>4. t = Secrets(s, "keyring")
      BY <2>3 DEF t
    <2>5. \A j \in DOMAIN t : t[j].op = "secret" /\ PartOf(t[j], s)
      BY <2>4, SecretsAre
    <2> QED
      BY <2>2, <2>3, <2>5
  <1>12. Covers(W, k, s, backend)
    <2> SUFFICES ASSUME backend = "keyring", NEW a \in DOMAIN s, NEW p \in Range(Parts)
                 PROVE  \E i \in 1..(k - 1) : W[i].op = "secret" /\ W[i].name = s[a].name /\ W[i].part = p
      BY DEF Covers
    <2>1. t = Secrets(s, "keyring")
      BY DEF t
    <2>2. PICK i \in DOMAIN t : t[i].op = "secret" /\ t[i].name = s[a].name /\ t[i].part = p
      BY <2>1, SecretsAre
    <2> QED
      BY <1>9, <2>2
  <1>13. \A i \in DOMAIN W : W[i].op \in {"secret", "auth"}
    BY <1>2, <1>5, <1>6, <1>8
  <1> QED
    BY <1>6, <1>7, <1>10, <1>11, <1>12, <1>13 DEF Shape, WellWritten

(* Secrets of gone names may come first, if there is a keyring, ... *)
LEMMA ShapeAfter ==
    ASSUME NEW W, NEW k, NEW s, NEW active, NEW backend, NEW gone,
           Shape(W, k, s, active, backend, gone),
           NEW X \in Seq(Writes),
           \A i \in DOMAIN X : X[i].op = "secret" /\ X[i].name \in gone /\ backend = "keyring"
    PROVE  Shape(X \o W, Len(X) + k, s, active, backend, gone)
  <1> DEFINE V == X \o W
             n == Len(X)
             m == n + k
  <1>1. W \in Seq(Writes) /\ DOMAIN W = 1..Len(W) /\ Len(W) \in Nat /\ k \in DOMAIN W
    BY DEF Shape, FileAt
  <1>2. /\ V \in Seq(Writes) /\ Len(V) = n + Len(W) /\ n \in Nat
        /\ \A i \in 1..n : V[i] = X[i]
        /\ \A i \in 1..Len(W) : V[n + i] = W[i]
    BY <1>1, JoinedLists
  <1>3. DOMAIN V = 1..(n + Len(W)) /\ DOMAIN X = 1..n
    BY <1>2
  <1> HIDE DEF V, n
  <1>4. ASSUME NEW i \in DOMAIN V
        PROVE  \/ i \in DOMAIN X /\ V[i] = X[i] /\ i < m
               \/ \E j \in DOMAIN W : i = n + j /\ V[i] = W[j]
    <2>1. CASE i <= n
      BY <1>1, <1>2, <1>3, <2>1
    <2>2. CASE i > n
      <3>1. PICK j : j = i - n
        OBVIOUS
      <3>2. j \in 1..Len(W) /\ i = n + j
        BY <1>1, <1>2, <1>3, <2>2, <3>1
      <3> QED
        BY <1>1, <1>2, <3>2
    <2> QED
      BY <1>2, <1>3, <2>1, <2>2
  <1>5. m \in DOMAIN V /\ V[m] = W[k] /\ m \in Nat
    BY <1>1, <1>2, <1>3
  <1>6. FileAt(V, m, s, active, backend)
    <2>1. W[k].op = "auth" /\ W[k].file = FileOf(s, active, backend)
      BY DEF Shape, FileAt
    <2>2. ASSUME NEW i \in DOMAIN V, i # m, V[i].op = "auth"
          PROVE  FALSE
      <3>1. PICK j \in DOMAIN W : i = n + j /\ V[i] = W[j]
        BY <1>4, <2>2
      <3> QED
        BY <2>2, <3>1 DEF Shape, FileAt
    <2> QED
      BY <1>5, <2>1, <2>2 DEF FileAt
  <1>7. SecretsOf(V, m, s, backend, gone)
    <2> SUFFICES ASSUME NEW i \in DOMAIN V, V[i].op = "secret"
                 PROVE  /\ backend = "keyring"
                        /\ \/ i < m /\ PartOf(V[i], s)
                           \/ V[i].name \in gone
      BY DEF SecretsOf
    <2>1. CASE i \in DOMAIN X /\ V[i] = X[i]
      BY <2>1
    <2>2. CASE \E j \in DOMAIN W : i = n + j /\ V[i] = W[j]
      <3>1. PICK j \in DOMAIN W : i = n + j /\ V[i] = W[j]
        BY <2>2
      <3>2. j < k => i < m
        BY <1>1, <1>2, <3>1
      <3> QED
        BY <3>1, <3>2 DEF Shape, SecretsOf
    <2> QED
      BY <1>4, <2>1, <2>2
  <1>8. Covers(V, m, s, backend)
    <2> SUFFICES ASSUME backend = "keyring", NEW a \in DOMAIN s, NEW p \in Range(Parts)
                 PROVE  \E i \in 1..(m - 1) : V[i].op = "secret" /\ V[i].name = s[a].name /\ V[i].part = p
      BY DEF Covers
    <2>1. PICK j \in 1..(k - 1) : W[j].op = "secret" /\ W[j].name = s[a].name /\ W[j].part = p
      BY DEF Shape, Covers
    <2>2. n + j \in 1..(m - 1) /\ j \in 1..Len(W)
      BY <1>1, <1>2
    <2> QED
      BY <1>2, <2>1, <2>2
  <1> QED
    BY <1>2, <1>6, <1>7, <1>8 DEF Shape, V, n

(* ... and they and the books may come after. *)
LEMMA ShapeThen ==
    ASSUME NEW W, NEW k, NEW s, NEW active, NEW backend, NEW gone,
           Shape(W, k, s, active, backend, gone),
           NEW X \in Seq(Writes),
           \A i \in DOMAIN X : /\ X[i].op # "auth"
                               /\ X[i].op = "secret" => X[i].name \in gone /\ backend = "keyring"
    PROVE  Shape(W \o X, k, s, active, backend, gone)
  <1> DEFINE V == W \o X
             n == Len(W)
  <1>1. W \in Seq(Writes) /\ DOMAIN W = 1..n /\ n \in Nat /\ k \in DOMAIN W
    BY DEF Shape, FileAt
  <1>2. /\ V \in Seq(Writes) /\ Len(V) = n + Len(X) /\ Len(X) \in Nat
        /\ \A i \in 1..n : V[i] = W[i]
        /\ \A i \in 1..Len(X) : V[n + i] = X[i]
    BY <1>1, JoinedLists
  <1>3. DOMAIN V = 1..(n + Len(X)) /\ DOMAIN X = 1..Len(X)
    BY <1>2
  <1> HIDE DEF V, n
  <1>4. ASSUME NEW i \in DOMAIN V
        PROVE  \/ i \in DOMAIN W /\ V[i] = W[i]
               \/ \E j \in DOMAIN X : i = n + j /\ V[i] = X[j]
    <2>1. CASE i <= n
      BY <1>1, <1>2, <1>3, <2>1
    <2>2. CASE i > n
      <3>1. PICK j : j = i - n
        OBVIOUS
      <3>2. i \in Int /\ i <= n + Len(X) /\ n \in Int /\ Len(X) \in Int
        BY <1>1, <1>2, <1>3
      <3>3. j \in 1..Len(X) /\ i = n + j
        BY <2>2, <3>1, <3>2
      <3> QED
        BY <1>2, <1>3, <3>3
    <2> QED
      BY <1>1, <1>3, <2>1, <2>2
  <1>5. k \in DOMAIN V /\ V[k] = W[k]
    BY <1>1, <1>2, <1>3
  <1>6. FileAt(V, k, s, active, backend)
    <2>1. W[k].op = "auth" /\ W[k].file = FileOf(s, active, backend)
      BY DEF Shape, FileAt
    <2>2. ASSUME NEW i \in DOMAIN V, i # k, V[i].op = "auth"
          PROVE  FALSE
      <3>1. i \in DOMAIN W /\ V[i] = W[i]
        BY <1>4, <2>2
      <3> QED
        BY <2>2, <3>1 DEF Shape, FileAt
    <2> QED
      BY <1>5, <2>1, <2>2 DEF FileAt
  <1>7. SecretsOf(V, k, s, backend, gone)
    <2> SUFFICES ASSUME NEW i \in DOMAIN V, V[i].op = "secret"
                 PROVE  /\ backend = "keyring"
                        /\ \/ i < k /\ PartOf(V[i], s)
                           \/ V[i].name \in gone
      BY DEF SecretsOf
    <2>1. CASE i \in DOMAIN W /\ V[i] = W[i]
      BY <2>1 DEF Shape, SecretsOf
    <2>2. CASE \E j \in DOMAIN X : i = n + j /\ V[i] = X[j]
      BY <2>2
    <2> QED
      BY <1>4, <2>1, <2>2
  <1>8. Covers(V, k, s, backend)
    <2> SUFFICES ASSUME backend = "keyring", NEW a \in DOMAIN s, NEW p \in Range(Parts)
                 PROVE  \E i \in 1..(k - 1) : V[i].op = "secret" /\ V[i].name = s[a].name /\ V[i].part = p
      BY DEF Covers
    <2>1. PICK j \in 1..(k - 1) : W[j].op = "secret" /\ W[j].name = s[a].name /\ W[j].part = p
      BY DEF Shape, Covers
    <2>2. j \in 1..n
      BY <1>1
    <2> QED
      BY <1>2, <2>1, <2>2
  <1> QED
    BY <1>2, <1>6, <1>7, <1>8 DEF Shape, V

(* What a list of accounts must be to be written. *)
GoodList(s, active, m) ==
    Distinct(s) /\ ActiveIs(s, active) /\ \A a \in DOMAIN s : s[a].id <= m

(* Each account has the credentials command c leaves it with. *)
Brings(s, c, f) ==
    \A a \in DOMAIN s : GivenFor(c, f)[s[a].name] # Unknown => s[a].keys = GivenFor(c, f)[s[a].name]

(* The keyring already has what may not be written. *)
AsKept(s, backend, c) ==
    backend = "keyring" => \A a \in DOMAIN s : Safe(c, s[a].name) \/ s[a].keys = keyring[s[a].name]

(* What is forgotten is of no account of s, and may be before the file is
   written. *)
GoneSafe(W, k, s, gone, c) ==
    /\ gone \cap NamesIn(s) = {}
    /\ \A i \in 1..(k - 1) : W[i].op = "secret" /\ W[i].name \in gone => Safe(c, W[i].name)

(* Owners are matched by ids and identities alone. *)
LEMMA SameOwners ==
    ASSUME NEW s, NEW t, DOMAIN t = DOMAIN s,
           \A i \in DOMAIN s : t[i].id = s[i].id /\ t[i].ref = s[i].ref,
           NEW o, OwnersMatch(s, o)
    PROVE  OwnersMatch(t, o)
  <1>1. \A i \in DOMAIN t : t[i].id # NoId => o[t[i].id] \subseteq {t[i].ref}
    <2> SUFFICES ASSUME NEW i \in DOMAIN s, s[i].id # NoId
                 PROVE  o[s[i].id] \subseteq {s[i].ref}
      OBVIOUS
    <2> QED
      BY DEF OwnersMatch
  <1>2. ASSUME NEW n \in 1..MaxIds, \A i \in DOMAIN t : t[i].id # n
        PROVE  o[n] = {}
    <2>1. \A i \in DOMAIN s : s[i].id # n
      BY <1>2
    <2> QED
      BY <2>1 DEF OwnersMatch
  <1> QED
    BY <1>1, <1>2 DEF OwnersMatch

(* Then the writes are as the invariant asks. *)
LEMMA ShapeReady ==
    ASSUME Base,
           NEW s \in Seq(Account), NEW active \in Names \cup {None},
           NEW backend \in {"file", "keyring"}, NEW f, f = FileOf(s, active, backend),
           NEW W, NEW k, NEW gone, Shape(W, k, s, active, backend, gone),
           NEW c, NEW m, GoodList(s, active, m), Brings(s, c, f), AsKept(s, backend, c),
           GoneSafe(W, k, s, gone, c),
           KeepsIds(c, f), OwnersMatch(f.accounts, OwnersFor(c, f))
    PROVE  AuthFrame(W, c, m) /\ SafeChanges(W, c)
  <1>1. /\ W \in Seq(Writes) /\ k \in DOMAIN W /\ DOMAIN W = 1..Len(W) /\ Len(W) \in Nat
        /\ W[k].op = "auth" /\ W[k].file = f
        /\ \A i \in DOMAIN W : i # k => W[i].op # "auth"
    BY DEF Shape, FileAt
  <1>2. \A i \in DOMAIN W : W[i].op = "secret" =>
           backend = "keyring" /\ ((i < k /\ PartOf(W[i], s)) \/ W[i].name \in gone)
    BY DEF Shape, SecretsOf
  <1>3. /\ f \in File /\ f.exists /\ f.backend = backend /\ f.active = active
        /\ DOMAIN f.accounts = DOMAIN s
        /\ \A i \in DOMAIN s : /\ f.accounts[i].name = s[i].name /\ f.accounts[i].id = s[i].id
                               /\ f.accounts[i].ref = s[i].ref
                               /\ backend = "file" => f.accounts[i].keys = s[i].keys
        /\ NamesIn(f.accounts) = NamesIn(s)
        /\ (f.accounts = <<>>) = (s = <<>>)
    BY FileOfIs
  <1>4. SoundFile(f, m)
    <2>1. Distinct(s) /\ ActiveIs(s, active) /\ \A a \in DOMAIN s : s[a].id <= m
      BY DEF GoodList
    <2>2. Distinct(f.accounts)
      BY <1>3, <2>1 DEF Distinct
    <2>3. ActiveIs(f.accounts, f.active)
      BY <1>3, <2>1 DEF ActiveIs
    <2>4. \A a \in DOMAIN f.accounts : f.accounts[a].id <= m
      BY <1>3, <2>1
    <2> QED
      BY <1>3, <2>2, <2>3, <2>4 DEF SoundFile
  <1>5. ASSUME NEW a \in DOMAIN s, backend = "keyring"
        PROVE  Settles(keyring, W, k, s[a].name, s[a].keys)
    <2> SUFFICES ASSUME NEW p \in Range(Parts)
                 PROVE  /\ \A i \in 1..(k - 1) :
                              W[i].op = "secret" /\ W[i].name = s[a].name /\ W[i].part = p
                                 => W[i].value = s[a].keys[p]
                        /\ \E i \in 1..(k - 1) :
                              W[i].op = "secret" /\ W[i].name = s[a].name /\ W[i].part = p
      BY DEF Settles
    <2>1. \E i \in 1..(k - 1) : W[i].op = "secret" /\ W[i].name = s[a].name /\ W[i].part = p
      BY <1>5 DEF Shape, Covers
    <2>2. ASSUME NEW i \in 1..(k - 1), W[i].op = "secret", W[i].name = s[a].name, W[i].part = p
          PROVE  W[i].value = s[a].keys[p]
      <3>1. i \in DOMAIN W
        BY <1>1
      <3>2. W[i].name \notin gone
        BY <2>2 DEF GoneSafe, NamesIn
      <3>3. PICK b \in DOMAIN s : W[i].name = s[b].name /\ W[i].value = s[b].keys[W[i].part]
        BY <1>2, <2>2, <3>1, <3>2 DEF PartOf
      <3>4. b = a
        BY <2>2, <3>3 DEF GoodList, Distinct
      <3> QED
        BY <2>2, <3>3, <3>4
    <2> QED
      BY <2>1, <2>2
  <1>6. Restores(W, k, c)
    <2> SUFFICES ASSUME NEW a \in DOMAIN s, NEW v, v = GivenFor(c, f)[s[a].name], v # Unknown
                 PROVE  IF backend = "keyring" THEN Settles(keyring, W, k, s[a].name, v)
                        ELSE f.accounts[a].keys = v
      BY <1>1, <1>3 DEF Restores
    <2>1. s[a].keys = v
      BY DEF Brings
    <2> QED
      BY <1>3, <1>5, <2>1
  <1>7. AuthGood(W, k, c, m)
    BY <1>1, <1>3, <1>4, <1>6 DEF AuthGood
  <1>8. AuthFrame(W, c, m)
    BY <1>1, <1>7 DEF AuthFrame
  <1>9. ASSUME NEW i \in DOMAIN W, W[i].op = "secret", Changes(W[i])
        PROVE  SafeAt(W, i, c)
    <2>1. i \in Nat /\ k \in Nat /\ i # k /\ i > 0 /\ k > 0
      BY <1>1, <1>9
    <2>2. ASSUME \A j \in 1..(i - 1) : W[j].op # "auth"
          PROVE  Safe(c, W[i].name)
      <3>1. i < k
        BY <1>1, <2>1, <2>2
      <3>2. CASE W[i].name \in gone
        <4>1. i \in 1..(k - 1)
          BY <2>1, <3>1
        <4> QED
          BY <1>9, <3>2, <4>1 DEF GoneSafe
      <3>3. CASE W[i].name \notin gone
        <4>1. PICK a \in DOMAIN s : W[i].name = s[a].name /\ W[i].value = s[a].keys[W[i].part]
          BY <1>2, <1>9, <3>3 DEF PartOf
        <4>2. Safe(c, s[a].name) \/ s[a].keys = keyring[s[a].name]
          BY <1>2, <1>9 DEF AsKept
        <4>3. keyring[W[i].name][W[i].part] # W[i].value
          BY <1>9 DEF Changes
        <4> QED
          BY <4>1, <4>2, <4>3
      <3> QED
        BY <3>2, <3>3
    <2>3. ASSUME NEW j \in 1..(i - 1), W[j].op = "auth"
          PROVE  W[i].name \notin NamesIn(W[j].file.accounts)
      <3>1. j \in DOMAIN W /\ j < i
        BY <1>1, <2>1
      <3>2. j = k
        BY <1>1, <2>3, <3>1
      <3>3. W[i].name \in gone
        <4>1. ~(i < k)
          BY <2>1, <3>1, <3>2
        <4> QED
          BY <1>2, <1>9, <4>1
      <3>4. W[i].name \notin NamesIn(s)
        BY <3>3 DEF GoneSafe
      <3> QED
        BY <1>1, <1>3, <3>2, <3>4
    <2> QED
      BY <2>2, <2>3 DEF SafeAt
  <1> QED
    BY <1>8, <1>9 DEF SafeChanges

----------------------------------------------------------------------------
(* The accounts a command reads. *)

(* The backend is one of the two, and that of the file, unless there is none or
   the keyring is away. *)
LEMMA BackendIs ==
    ASSUME Base, NEW prefer \in {"file", "keyring"}
    PROVE  Backend(prefer) \in {"file", "keyring"}
  <1>1. auth.backend \in {"file", "keyring"}
    BY DEF Base, SoundFile, File
  <1> QED
    BY <1>1 DEF Backend

(* The accounts of auth.json, with their secrets. *)
LEMMA LoadedIs ==
    ASSUME Base, NEW backend, NEW s, s = Loaded(backend)
    PROVE  /\ s \in Seq(Account) /\ DOMAIN s = DOMAIN auth.accounts
           /\ \A i \in DOMAIN s : /\ s[i].name = auth.accounts[i].name /\ s[i].id = auth.accounts[i].id
                                  /\ s[i].ref = auth.accounts[i].ref
                                  /\ s[i].keys = KeysOf(auth.accounts[i], backend)
           /\ Distinct(s) /\ NamesIn(s) = NamesIn(auth.accounts)
           /\ \A i \in DOMAIN s : s[i].id <= minted
           /\ (s = <<>>) = (auth.accounts = <<>>)
           /\ ActiveIs(s, auth.active)
  <1> DEFINE a == auth.accounts
  <1>1. /\ a \in Seq(Account) /\ Distinct(a) /\ keyring \in [Names -> Keys] /\ ActiveIs(a, auth.active)
        /\ \A i \in DOMAIN a : a[i].id <= minted
    BY DEF Base, SoundFile, File
  <1>2. s = [i \in DOMAIN a |-> Hydrated(a[i], backend)]
    BY DEF Loaded
  <1> HIDE DEF a
  <1>3. ASSUME NEW i \in DOMAIN a
        PROVE  /\ s[i] \in Account
               /\ s[i].name = a[i].name /\ s[i].id = a[i].id /\ s[i].ref = a[i].ref
               /\ s[i].keys = KeysOf(a[i], backend)
    <2>1. a[i] \in Account
      BY <1>1
    <2>2. PICK v : v = KeysOf(a[i], backend)
      OBVIOUS
    <2>3. v \in Keys
      BY <1>1, <2>1, <2>2 DEF KeysOf, Account
    <2>4. s[i] = [a[i] EXCEPT !.keys = v]
      BY <1>2, <2>2 DEF Hydrated
    <2> QED
      BY <2>1, <2>2, <2>3, <2>4 DEF Account
  <1>4. s \in [1..Len(a) -> Account] /\ DOMAIN a = 1..Len(a) /\ Len(a) \in Nat /\ DOMAIN s = DOMAIN a
    BY <1>1, <1>2, <1>3
  <1>5. s \in Seq(Account) /\ Len(s) = Len(a)
    BY <1>4
  <1>6. Distinct(s)
    BY <1>1, <1>3, <1>4 DEF Distinct
  <1>7. NamesIn(s) = NamesIn(a)
    BY <1>3, <1>4 DEF NamesIn
  <1>8. (s = <<>>) = (a = <<>>)
    BY <1>1, <1>4, <1>5
  <1>9. ActiveIs(s, auth.active)
    BY <1>1, <1>3, <1>4, <1>8 DEF ActiveIs
  <1>10. \A i \in DOMAIN s : s[i].id <= minted
    BY <1>1, <1>3, <1>4
  <1> QED
    BY <1>3, <1>4, <1>5, <1>6, <1>7, <1>8, <1>9, <1>10 DEF a

(* An account that is loaded has the credentials it was given, and those of the
   keyring, if that is where they are. *)
LEMMA LoadedKeys ==
    ASSUME Base, Known, NEW backend, NEW i \in DOMAIN auth.accounts,
           NEW n, n = auth.accounts[i].name
    PROVE  /\ given[n] # Unknown /\ ~(auth.exists /\ backend # auth.backend)
                 => KeysOf(auth.accounts[i], backend) = given[n]
           /\ backend = "keyring" => KeysOf(auth.accounts[i], backend) = keyring[n]
  <1>1. auth.exists
    <2>1. auth.accounts # <<>>
      OBVIOUS
    <2> QED
      BY <2>1 DEF Base, SoundFile
  <1>2. given[n] # Unknown => KeysOf(auth.accounts[i], auth.backend) = given[n]
    BY DEF Known
  <1>3. backend = "keyring" => KeysOf(auth.accounts[i], backend) = keyring[n]
    BY DEF KeysOf
  <1> QED
    BY <1>1, <1>2, <1>3

(* t lists the accounts of s of the other names. *)
OthersOf(t, s, name) ==
    /\ \A k \in DOMAIN t : \E i \in DOMAIN s : t[k] = s[i] /\ s[i].name # name
    /\ \A i \in DOMAIN s : s[i].name # name => \E k \in DOMAIN t : t[k] = s[i]

(* That is what Without gives. *)
LEMMA WithoutIs ==
    ASSUME NEW s \in Seq(Account), Distinct(s), NEW name, NEW t, t = Without(s, name)
    PROVE  t \in Seq(Account) /\ Distinct(t) /\ OthersOf(t, s, name)
  <1> DEFINE I == {i \in DOMAIN s : s[i].name # name}
             at == Ascending(I)
             n == Cardinality(I)
  <1>1. I \in SUBSET DOMAIN s /\ \A i \in DOMAIN s : i \in I <=> s[i].name # name
    OBVIOUS
  <1>2. t = Picked(s, I)
    BY DEF Without
  <1> HIDE DEF I
  <1>3. /\ Picked(s, I) \in Seq(Account)
        /\ DOMAIN Picked(s, I) = 1..n /\ n \in Nat
        /\ Ascending(I) \in [1..n -> I]
        /\ \A k \in 1..n : Picked(s, I)[k] = s[Ascending(I)[k]]
        /\ \A k, m \in 1..n : k < m => Ascending(I)[k] < Ascending(I)[m]
        /\ \A i \in I : \E k \in 1..n : Ascending(I)[k] = i
    BY <1>1, PickedLists
  <1> HIDE DEF n, at
  <1>4. at = Ascending(I)
    BY DEF at
  <1>5. /\ t \in Seq(Account) /\ DOMAIN t = 1..n
        /\ \A k \in 1..n : at[k] \in I /\ t[k] = s[at[k]]
        /\ \A k, m \in 1..n : k < m => at[k] < at[m]
        /\ \A i \in I : \E k \in 1..n : at[k] = i
    BY <1>2, <1>3, <1>4
  <1>6. ASSUME NEW k \in 1..n, NEW m \in 1..n, k # m
        PROVE  at[k] # at[m]
    <2>1. at[k] \in Int /\ at[m] \in Int
      <3>1. DOMAIN s \subseteq Int
        OBVIOUS
      <3> QED
        BY <1>1, <1>5, <3>1
    <2>2. k < m \/ m < k
      BY <1>3, <1>6
    <2>3. at[k] < at[m] \/ at[m] < at[k]
      BY <1>5, <2>2
    <2> QED
      BY <2>1, <2>3
  <1>7. Distinct(t)
    BY <1>1, <1>5, <1>6 DEF Distinct
  <1>8. \A k \in DOMAIN t : \E i \in DOMAIN s : t[k] = s[i] /\ s[i].name # name
    BY <1>1, <1>5
  <1>9. \A i \in DOMAIN s : s[i].name # name => \E k \in DOMAIN t : t[k] = s[i]
    <2> SUFFICES ASSUME NEW i \in DOMAIN s, s[i].name # name
                 PROVE  \E k \in DOMAIN t : t[k] = s[i]
      OBVIOUS
    <2>1. PICK k \in 1..n : at[k] = i
      BY <1>1, <1>5
    <2> QED
      BY <1>5, <2>1
  <1> QED
    BY <1>5, <1>7, <1>8, <1>9 DEF OthersOf

(* The account of a name. *)
LEMMA NamedIs ==
    ASSUME NEW s, Distinct(s), NEW i \in DOMAIN s, NEW name, name = s[i].name
    PROVE  Named(s, name) = s[i]
  <1>1. \A j \in DOMAIN s : s[j].name = name <=> j = i
    BY DEF Distinct
  <1> QED
    BY <1>1 DEF Named

----------------------------------------------------------------------------
(* auth login. *)

(* What a login may be given. *)
LEMMA LoginIs ==
    ASSUME NEW l \in Logins
    PROVE  l.name \in Names /\ l.keys \in Keys /\ l.ref \in Refs \cup {None} /\ l.force \in BOOLEAN
  <1>1. NoKeys \in Keys /\ \A c \in Creds : AllOf(c) \in Keys
    BY DEF NoKeys, AllOf, Keys, Values
  <1>2. CASE l \in [name : Names, keys : {NoKeys}, ref : {None}, force : {FALSE}]
    BY <1>1, <1>2
  <1>3. CASE \E c \in Creds : l \in [name : Names, keys : {AllOf(c)}, ref : {None}, force : {FALSE}]
    BY <1>1, <1>3
  <1>4. CASE \E c \in Creds : l \in [name : Names, keys : {AllOf(c)}, ref : {OwnerOf[c]}, force : BOOLEAN]
    <2>1. PICK c \in Creds : l \in [name : Names, keys : {AllOf(c)}, ref : {OwnerOf[c]}, force : BOOLEAN]
      BY <1>4
    <2>2. OwnerOf[c] \in Refs
      BY DEF Refs
    <2> QED
      BY <1>1, <2>1, <2>2
  <1> QED
    BY <1>2, <1>3, <1>4 DEF Logins

(* The id of the account that is logged into is its own or a new one. *)
LEMMA IdIs ==
    ASSUME Base, NEW name \in Names, NEW id, id = IdAfter(name)
    PROVE  /\ id \in Nat /\ id > 0
           /\ \A i \in DOMAIN auth.accounts : auth.accounts[i].name = name =>
                 /\ Exists(name) /\ Named(auth.accounts, name) = auth.accounts[i]
                 /\ auth.accounts[i].id # NoId => id = auth.accounts[i].id
           /\ \A i \in DOMAIN auth.accounts : auth.accounts[i].name # name => auth.accounts[i].id # id
           /\ Exists(name) => \E i \in DOMAIN auth.accounts : auth.accounts[i].name = name
           /\ id = minted + 1 \/ \E i \in DOMAIN auth.accounts :
                                    auth.accounts[i].name = name /\ auth.accounts[i].id = id
  <1> DEFINE a == auth.accounts
  <1>1. a \in Seq(Account) /\ Distinct(a) /\ (\A i \in DOMAIN a : a[i].id <= minted) /\ minted \in Nat
    BY AccountsAssumption DEF Base, SoundFile, File
  <1>2. Exists(name) <=> \E i \in DOMAIN a : a[i].name = name
    BY DEF Exists, NamesIn
  <1>3. id = IF Exists(name) /\ Named(a, name).id # NoId THEN Named(a, name).id ELSE minted + 1
    BY DEF IdAfter
  <1> HIDE DEF a
  <1>4. \A i \in DOMAIN a : a[i].id \in Nat /\ a[i].id <= minted
    <2> SUFFICES ASSUME NEW i \in DOMAIN a
                 PROVE  a[i].id \in Nat
      BY <1>1
    <2>1. a[i] \in Account
      BY <1>1
    <2> QED
      BY <2>1 DEF Account
  <1>5. \A i \in DOMAIN a : a[i].name = name => Exists(name) /\ Named(a, name) = a[i]
    BY <1>1, <1>2, NamedIs
  <1>6. CASE Exists(name) /\ Named(a, name).id # NoId
    <2>1. PICK j \in DOMAIN a : a[j].name = name
      BY <1>2, <1>6
    <2>2. Named(a, name) = a[j] /\ id = a[j].id /\ a[j].id # NoId
      BY <1>3, <1>5, <1>6, <2>1
    <2>3. \A i \in DOMAIN a : a[i].name = name => i = j
      BY <1>1, <2>1 DEF Distinct
    <2>4. \A i \in DOMAIN a : a[i].name # name => a[i].id # id
      BY <1>1, <2>1, <2>2 DEF Distinct
    <2>5. id \in Nat /\ id > 0
      BY <1>4, <2>2 DEF NoId
    <2> QED
      BY <1>2, <1>5, <2>1, <2>2, <2>3, <2>4, <2>5 DEF a
  <1>7. CASE ~(Exists(name) /\ Named(a, name).id # NoId)
    <2>1. id = minted + 1
      BY <1>3, <1>7
    <2>2. \A i \in DOMAIN a : a[i].id # id
      BY <1>1, <1>4, <2>1
    <2>3. \A i \in DOMAIN a : a[i].name = name => a[i].id = NoId
      BY <1>5, <1>7
    <2> QED
      BY <1>1, <1>2, <1>5, <2>1, <2>2, <2>3 DEF a
  <1> QED
    BY <1>6, <1>7

(* A login may start. *)
LEMMA LoginReady ==
    ASSUME AccountsInv, NEW l \in Logins, NEW prefer \in Preferences,
           NEW backend, backend = Backend(prefer),
           NEW id, id = IdAfter(l.name), id <= MaxIds,
           NEW e, e = [name |-> l.name, id |-> id, keys |-> l.keys,
                       ref |-> IF Exists(l.name) THEN RefAfter(l.ref, Named(auth.accounts, l.name))
                               ELSE l.ref],
           ~Refused(l.name, l.ref, l.force),
           NEW m, m = IF id > minted THEN id ELSE minted,
           NEW c, c = [kind |-> "login", name |-> l.name, keys |-> l.keys, id |-> id,
                       ref |-> l.ref, force |-> l.force],
           NEW active, active = IF auth.active = None THEN l.name ELSE auth.active,
           NEW W, W = Written(Append(Without(Loaded(backend), l.name), e), active, backend)
    PROVE  Ready(W, c, m)
  <1> DEFINE a == auth.accounts
             name == l.name
  <1>1. Base /\ Known /\ OwnersMatch(a, owners)
    BY DEF AccountsInv
  <1>2. l.name \in Names /\ l.keys \in Keys /\ l.ref \in Refs \cup {None} /\ l.force \in BOOLEAN
    BY LoginIs
  <1>3. /\ a \in Seq(Account) /\ Distinct(a) /\ minted \in Nat /\ MaxIds \in Nat /\ minted <= MaxIds
        /\ auth.active \in Names \cup {None} /\ auth.backend \in {"file", "keyring"}
        /\ ActiveIs(a, auth.active)
        /\ given \in [Names -> Keys \cup {Unknown}]
        /\ owners \in [1..MaxIds -> SUBSET (Refs \ {None})]
    BY <1>1, AccountsAssumption DEF Base, SoundFile, File
  <1>4. backend \in {"file", "keyring"}
    <2>1. prefer \in {"file", "keyring"}
      BY <1>3 DEF Preferences
    <2> QED
      BY <1>1, <2>1, BackendIs
  <1>5. PICK L : L = Loaded(backend)
    OBVIOUS
  <1>6. /\ L \in Seq(Account) /\ DOMAIN L = DOMAIN a
        /\ \A i \in DOMAIN L : /\ L[i].name = a[i].name /\ L[i].id = a[i].id
                               /\ L[i].ref = a[i].ref
                               /\ L[i].keys = KeysOf(a[i], backend)
        /\ Distinct(L)
        /\ \A i \in DOMAIN L : L[i].id <= minted
    BY <1>1, <1>5, LoadedIs
  <1>7. PICK t : t = Without(L, name)
    OBVIOUS
  <1>8. /\ t \in Seq(Account) /\ Distinct(t)
        /\ \A k \in DOMAIN t : \E i \in DOMAIN L : t[k] = L[i] /\ L[i].name # name
        /\ \A i \in DOMAIN L : L[i].name # name => \E k \in DOMAIN t : t[k] = L[i]
    <2>1. t \in Seq(Account) /\ Distinct(t) /\ OthersOf(t, L, name)
      BY <1>6, <1>7, WithoutIs
    <2> QED
      BY <2>1 DEF OthersOf
  <1>9. /\ id \in Nat /\ id > 0
        /\ \A i \in DOMAIN a : a[i].name = name =>
              /\ Exists(name) /\ Named(a, name) = a[i]
              /\ a[i].id # NoId => id = a[i].id
        /\ \A i \in DOMAIN a : a[i].name # name => a[i].id # id
        /\ Exists(name) => \E i \in DOMAIN a : a[i].name = name
        /\ id = minted + 1 \/ \E i \in DOMAIN a : a[i].name = name /\ a[i].id = id
    BY <1>1, <1>2, IdIs
  <1>10. e.name = name /\ e.id = id /\ e.keys = l.keys
         /\ e.ref = IF Exists(name) THEN RefAfter(l.ref, Named(a, name)) ELSE l.ref
    OBVIOUS
  <1>11. c.kind = "login" /\ c.name = name /\ c.keys = l.keys /\ c.id = id /\ c.ref = l.ref /\ c.force = l.force
    OBVIOUS
  <1>12. m \in Nat /\ minted <= m /\ m <= MaxIds /\ id <= m
    BY <1>3, <1>9
  <1>13. active \in Names \cup {None}
    BY <1>2, <1>3
  <1>14. e \in Account
    <2>1. e.ref \in Refs \cup {None}
      <3>1. CASE Exists(name)
        <4>1. PICK i \in DOMAIN a : a[i].name = name
          BY <1>9, <3>1
        <4>2. Named(a, name) = a[i] /\ a[i] \in Account
          BY <1>3, <1>9, <4>1
        <4>3. a[i].ref \in Refs \cup {None}
          BY <4>2 DEF Account
        <4> QED
          BY <1>2, <1>10, <3>1, <4>2, <4>3 DEF RefAfter
      <3>2. CASE ~Exists(name)
        BY <1>2, <1>10, <3>2
      <3> QED
        BY <3>1, <3>2
    <2>2. id \in 0..MaxIds
      BY <1>3, <1>9
    <2>3. e = [name |-> name, id |-> id, keys |-> l.keys, ref |-> e.ref]
      OBVIOUS
    <2> QED
      BY <1>2, <2>1, <2>2, <2>3 DEF Account
  <1> HIDE DEF a, name
  <1>15. PICK s : s = Append(t, e)
    OBVIOUS
  <1>16. /\ s \in Seq(Account) /\ Len(t) \in Nat /\ DOMAIN t = 1..Len(t)
         /\ DOMAIN s = 1..(Len(t) + 1) /\ s[Len(t) + 1] = e
         /\ \A k \in DOMAIN t : k \in DOMAIN s /\ s[k] = t[k]
    BY <1>8, <1>14, <1>15
  <1>17. PICK last \in DOMAIN s : last = Len(t) + 1
    BY <1>16
  <1>18. s[last] = e /\ \A k \in DOMAIN s : k # last => k \in DOMAIN t /\ s[k] = t[k]
    BY <1>16, <1>17
  <1>19. \A k \in DOMAIN s : k # last => \E i \in DOMAIN a : s[k] = L[i] /\ a[i].name # name
    <2> SUFFICES ASSUME NEW k \in DOMAIN s, k # last
                 PROVE  \E i \in DOMAIN a : s[k] = L[i] /\ a[i].name # name
      OBVIOUS
    <2>1. k \in DOMAIN t /\ s[k] = t[k]
      BY <1>18
    <2>2. PICK i \in DOMAIN L : t[k] = L[i] /\ L[i].name # name
      BY <1>8, <2>1
    <2>3. i \in DOMAIN a /\ L[i].name = a[i].name
      BY <1>6, <2>2
    <2> QED
      BY <2>1, <2>2, <2>3
  <1>20. \A i \in DOMAIN a : a[i].name # name => \E k \in DOMAIN s : s[k] = L[i]
    <2> SUFFICES ASSUME NEW i \in DOMAIN a, a[i].name # name
                 PROVE  \E k \in DOMAIN s : s[k] = L[i]
      OBVIOUS
    <2>1. PICK k \in DOMAIN t : t[k] = L[i]
      BY <1>6, <1>8
    <2> QED
      BY <1>16, <2>1
  <1>21. PICK f : f = FileOf(s, active, backend)
    OBVIOUS
  <1>22. /\ f.backend = backend /\ DOMAIN f.accounts = DOMAIN s
         /\ \A i \in DOMAIN s : /\ f.accounts[i].name = s[i].name /\ f.accounts[i].id = s[i].id
                                /\ f.accounts[i].ref = s[i].ref
    BY <1>4, <1>13, <1>16, <1>21, FileOfIs
  <1>23. GoodList(s, active, m)
    <2>1. Distinct(s)
      <3> SUFFICES ASSUME NEW i \in DOMAIN s, NEW j \in DOMAIN s, i # j
                   PROVE  s[i].name # s[j].name /\ (s[i].id = s[j].id => s[i].id = NoId)
        BY DEF Distinct
      <3>1. CASE i # last /\ j # last
        BY <1>8, <1>18, <3>1 DEF Distinct
      <3>2. CASE i = last \/ j = last
        <4>1. \A k \in DOMAIN s : k # last => s[k].name # name /\ s[k].id # id
          BY <1>6, <1>9, <1>19
        <4> QED
          BY <1>10, <1>18, <3>2, <4>1
      <3> QED
        BY <3>1, <3>2
    <2>2. ActiveIs(s, active)
      <3>1. s # <<>> /\ s[last].name = name
        BY <1>10, <1>18
      <3>2. CASE auth.active = None
        BY <3>1, <3>2 DEF ActiveIs, name
      <3>3. CASE auth.active # None
        <4>1. PICK i \in DOMAIN a : a[i].name = auth.active
          BY <1>3, <3>3 DEF ActiveIs
        <4>2. CASE a[i].name = name
          BY <3>1, <3>3, <4>1, <4>2 DEF ActiveIs
        <4>3. CASE a[i].name # name
          <5>1. PICK k \in DOMAIN s : s[k] = L[i]
            BY <1>20, <4>3
          <5> QED
            BY <1>6, <3>1, <3>3, <4>1, <5>1 DEF ActiveIs
        <4> QED
          BY <4>2, <4>3
      <3> QED
        BY <3>2, <3>3
    <2>3. \A k \in DOMAIN s : s[k].id <= m
      <3> SUFFICES ASSUME NEW k \in DOMAIN s
                   PROVE  s[k].id <= m
        OBVIOUS
      <3>1. CASE k = last
        BY <1>10, <1>12, <1>18, <3>1
      <3>2. CASE k # last
        <4>1. PICK i \in DOMAIN a : s[k] = L[i]
          BY <1>19, <3>2
        <4>2. L[i] \in Account
          BY <1>6
        <4>3. L[i].id \in Nat /\ L[i].id <= minted
          BY <1>6, <4>2, AccountsAssumption DEF Account
        <4> QED
          BY <1>3, <1>12, <4>1, <4>3
      <3> QED
        BY <3>1, <3>2
    <2> QED
      BY <2>1, <2>2, <2>3 DEF GoodList
  <1>24. \A n \in Names : GivenFor(c, f)[n] # Unknown =>
            /\ ~(auth.exists /\ backend # auth.backend)
            /\ GivenFor(c, f)[n] = IF n = name THEN l.keys ELSE given[n]
    <2> SUFFICES ASSUME NEW n \in Names, GivenFor(c, f)[n] # Unknown
                 PROVE  /\ ~(auth.exists /\ backend # auth.backend)
                        /\ GivenFor(c, f)[n] = IF n = name THEN l.keys ELSE given[n]
      OBVIOUS
    <2>1. CASE auth.exists /\ backend # auth.backend
      <3>1. GivenFor(c, f) = [x \in Names |-> Unknown]
        BY <1>22, <2>1 DEF GivenFor
      <3> QED
        BY <3>1
    <2>2. CASE ~(auth.exists /\ backend # auth.backend)
      <3>1. GivenFor(c, f) = [given EXCEPT ![name] = l.keys]
        BY <1>11, <1>22, <2>2 DEF GivenFor
      <3> QED
        BY <1>3, <2>2, <3>1
    <2> QED
      BY <2>1, <2>2
  <1>25. Brings(s, c, f)
    <2> SUFFICES ASSUME NEW k \in DOMAIN s, GivenFor(c, f)[s[k].name] # Unknown
                 PROVE  s[k].keys = GivenFor(c, f)[s[k].name]
      BY DEF Brings
    <2>1. s[k].name \in Names
      <3>1. s[k] \in Account
        BY <1>16
      <3> QED
        BY <3>1 DEF Account
    <2>2. CASE k = last
      BY <1>10, <1>18, <1>24, <2>1, <2>2
    <2>3. CASE k # last
      <3>1. PICK i \in DOMAIN a : s[k] = L[i] /\ a[i].name # name
        BY <1>19, <2>3
      <3>2. s[k].name = a[i].name /\ s[k].keys = KeysOf(a[i], backend)
        BY <1>6, <3>1
      <3>3. GivenFor(c, f)[s[k].name] = given[a[i].name] /\ given[a[i].name] # Unknown
            /\ ~(auth.exists /\ backend # auth.backend)
        BY <1>24, <2>1, <3>1, <3>2
      <3>4. KeysOf(a[i], backend) = given[a[i].name]
        BY <1>1, <3>3, LoadedKeys DEF a
      <3> QED
        BY <3>2, <3>3, <3>4
    <2> QED
      BY <2>2, <2>3
  <1>26. AsKept(s, backend, c)
    <2> SUFFICES ASSUME backend = "keyring", NEW k \in DOMAIN s
                 PROVE  Safe(c, s[k].name) \/ s[k].keys = keyring[s[k].name]
      BY DEF AsKept
    <2>1. CASE k = last
      BY <1>10, <1>11, <1>18, <2>1 DEF Safe
    <2>2. CASE k # last
      <3>1. PICK i \in DOMAIN a : s[k] = L[i] /\ a[i].name # name
        BY <1>19, <2>2
      <3>2. s[k].name = a[i].name /\ s[k].keys = KeysOf(a[i], backend)
        BY <1>6, <3>1
      <3>3. KeysOf(a[i], backend) = keyring[a[i].name]
        BY <1>1, LoadedKeys DEF a
      <3> QED
        BY <3>2, <3>3
    <2> QED
      BY <2>1, <2>2
  <1>27. KeepsIds(c, f)
    <2> SUFFICES ASSUME NEW i \in DOMAIN a, a[i].id # NoId
                 PROVE  \E k \in DOMAIN s : s[k].id = a[i].id /\ s[k].name = a[i].name
      BY <1>11, <1>22 DEF KeepsIds, a
    <2>1. CASE a[i].name = name
      BY <1>9, <1>10, <1>18, <2>1
    <2>2. CASE a[i].name # name
      <3>1. PICK k \in DOMAIN s : s[k] = L[i]
        BY <1>20, <2>2
      <3> QED
        BY <1>6, <3>1
    <2> QED
      BY <2>1, <2>2
  <1>28. OwnersMatch(f.accounts, OwnersFor(c, f))
    <2> DEFINE o == OwnersFor(c, f)
    <2>1. id \in 1..MaxIds
      BY <1>3, <1>9
    <2>2. \A n \in 1..MaxIds : n # id => o[n] = owners[n]
      <3>1. o = owners \/ o = [owners EXCEPT ![id] = IF c.force THEN {c.ref} ELSE owners[id] \cup {c.ref}]
        BY <1>11 DEF OwnersFor
      <3> QED
        BY <1>3, <2>1, <3>1
    <2>3. o[id] = IF l.ref = None THEN owners[id] ELSE IF l.force THEN {l.ref} ELSE owners[id] \cup {l.ref}
      <3>1. CASE l.ref = None
        BY <1>11, <3>1 DEF OwnersFor
      <3>2. CASE l.ref # None
        <4>1. o = [owners EXCEPT ![id] = IF l.force THEN {l.ref} ELSE owners[id] \cup {l.ref}]
          BY <1>11, <3>2 DEF OwnersFor
        <4> QED
          BY <1>3, <2>1, <3>2, <4>1
      <3> QED
        BY <3>1, <3>2
    <2> HIDE DEF o
    <2>4. /\ \A i \in DOMAIN a : a[i].id # NoId => owners[a[i].id] \subseteq {a[i].ref}
          /\ \A n \in 1..MaxIds : (\A i \in DOMAIN a : a[i].id # n) => owners[n] = {}
      BY <1>1 DEF OwnersMatch
    <2>5. o[id] \subseteq {e.ref}
      <3>1. CASE \E i \in DOMAIN a : a[i].name = name /\ a[i].id = id
        <4>1. PICK i \in DOMAIN a : a[i].name = name /\ a[i].id = id
          BY <3>1
        <4>2. owners[id] \subseteq {a[i].ref} /\ Named(a, name) = a[i] /\ Exists(name)
          BY <1>9, <2>4, <4>1 DEF NoId
        <4>3. e.ref = IF l.ref = None THEN a[i].ref ELSE l.ref
          BY <1>10, <4>2 DEF RefAfter
        <4>4. l.ref # None /\ ~l.force => a[i].ref \in {None, l.ref}
          BY <4>2 DEF Refused, name, a
        <4>5. None \notin owners[id]
          BY <1>3, <2>1
        <4> QED
          BY <2>3, <4>2, <4>3, <4>4, <4>5
      <3>2. CASE ~\E i \in DOMAIN a : a[i].name = name /\ a[i].id = id
        <4>1. owners[id] = {}
          <5>1. \A i \in DOMAIN a : a[i].id # id
            BY <1>9, <3>2
          <5> QED
            BY <2>1, <2>4, <5>1
        <4>2. l.ref # None => e.ref = l.ref
          BY <1>10 DEF RefAfter
        <4> QED
          BY <2>3, <4>1, <4>2
      <3> QED
        BY <3>1, <3>2
    <2>6. ASSUME NEW k \in DOMAIN s, s[k].id # NoId
          PROVE  o[s[k].id] \subseteq {s[k].ref}
      <3>1. CASE k = last
        BY <1>10, <1>18, <2>5, <3>1
      <3>2. CASE k # last
        <4>1. PICK i \in DOMAIN a : s[k] = L[i] /\ a[i].name # name
          BY <1>19, <3>2
        <4>2. s[k].id = a[i].id /\ s[k].ref = a[i].ref /\ a[i].id # id
          BY <1>6, <1>9, <4>1
        <4>3. a[i].id \in 1..MaxIds
          <5>1. a[i] \in Account
            BY <1>3
          <5>2. a[i].id \in 0..MaxIds
            BY <5>1 DEF Account
          <5> QED
            BY <1>3, <2>6, <4>2, <5>2 DEF NoId
        <4> QED
          BY <2>2, <2>4, <2>6, <4>2, <4>3
      <3> QED
        BY <3>1, <3>2
    <2>7. ASSUME NEW n \in 1..MaxIds, \A k \in DOMAIN s : s[k].id # n
          PROVE  o[n] = {}
      <3>1. n # id
        BY <1>10, <1>18, <2>7
      <3>2. ASSUME NEW i \in DOMAIN a
            PROVE  a[i].id # n
        <4>1. CASE a[i].name = name
          BY <1>9, <2>7, <3>1, <4>1 DEF NoId
        <4>2. CASE a[i].name # name
          <5>1. PICK k \in DOMAIN s : s[k] = L[i]
            BY <1>20, <4>2
          <5> QED
            BY <1>6, <2>7, <5>1
        <4> QED
          BY <4>1, <4>2
      <3> QED
        BY <2>2, <2>4, <3>1, <3>2
    <2>8. OwnersMatch(f.accounts, o)
      BY <1>22, <2>6, <2>7 DEF OwnersMatch
    <2> QED
      BY <2>8 DEF o
  <1>29. W = Written(s, active, backend)
    BY <1>5, <1>7, <1>15 DEF name
  <1>30. /\ Shape(W, Len(W), s, active, backend, {})
         /\ Len(W) \in Nat /\ Len(W) > 0 /\ DOMAIN W = 1..Len(W)
         /\ \A i \in DOMAIN W : W[i].op \in {"secret", "auth"}
    <2>1. s \in Seq(Account)
      BY <1>16
    <2>2. WellWritten(W, s, active, backend, {})
      BY <1>4, <1>13, <1>29, <2>1, WrittenHasShape
    <2> QED
      BY <2>2 DEF WellWritten
  <1>31. GoneSafe(W, Len(W), s, {}, c)
    BY DEF GoneSafe
  <1>32. AuthFrame(W, c, m) /\ SafeChanges(W, c)
    BY <1>1, <1>4, <1>13, <1>16, <1>21, <1>23, <1>25, <1>26, <1>27, <1>28, <1>30, <1>31, ShapeReady
  <1>33. CommandType(c) /\ c # NoCommand
    <2>1. id \in 1..MaxIds
      <3>1. minted \in Nat /\ MaxIds \in Nat
        BY <1>3
      <3>2. id = minted + 1 \/ \E i \in DOMAIN a : a[i].name = name /\ a[i].id = id
        BY <1>9
      <3> QED
        BY <1>9, <3>1, <3>2
    <2>2. CommandType(c)
      BY <1>2, <1>11, <2>1 DEF CommandType, name
    <2>3. c # NoCommand
      BY <1>11 DEF NoCommand
    <2> QED
      BY <2>2, <2>3
  <1>34. m \in minted..MaxIds
    BY <1>3, <1>12
  <1>35. ASSUME NEW i \in DOMAIN W
         PROVE  W[i].op # "move"
    <2>1. W[i].op \in {"secret", "auth"}
      BY <1>30
    <2> QED
      BY <2>1
  <1>36. MoveFrame(W)
    BY <1>35 DEF MoveFrame
  <1>37. W \in Seq(Writes)
    BY <1>30 DEF Shape
  <1> QED
    BY <1>32, <1>33, <1>34, <1>35, <1>36, <1>37 DEF Ready

----------------------------------------------------------------------------
(* auth logout and auth use. *)

(* Each account of s has the name and the credentials of one that was read. *)
Carries(s, backend) ==
    \A k \in DOMAIN s : \E i \in DOMAIN auth.accounts :
        s[k].name = auth.accounts[i].name /\ s[k].keys = KeysOf(auth.accounts[i], backend)

(* A command that gives no credentials and no name writes back what it read. *)
LEMMA CarriedKeys ==
    ASSUME Base, Known, NEW s, NEW backend, Carries(s, backend),
           NEW c, c.kind \notin {"login", "rename"}, NEW f, f.backend = backend
    PROVE  Brings(s, c, f) /\ AsKept(s, backend, c)
  <1>1. ASSUME NEW n \in Names, GivenFor(c, f)[n] # Unknown
        PROVE  ~(auth.exists /\ backend # auth.backend) /\ GivenFor(c, f)[n] = given[n]
    <2>1. CASE auth.exists /\ backend # auth.backend
      <3>1. GivenFor(c, f) = [x \in Names |-> Unknown]
        BY <2>1 DEF GivenFor
      <3> QED
        BY <1>1, <3>1
    <2>2. CASE ~(auth.exists /\ backend # auth.backend)
      BY <2>2 DEF GivenFor
    <2> QED
      BY <2>1, <2>2
  <1>2. ASSUME NEW k \in DOMAIN s
        PROVE  /\ GivenFor(c, f)[s[k].name] # Unknown => s[k].keys = GivenFor(c, f)[s[k].name]
               /\ backend = "keyring" => s[k].keys = keyring[s[k].name]
    <2>1. PICK i \in DOMAIN auth.accounts :
             s[k].name = auth.accounts[i].name /\ s[k].keys = KeysOf(auth.accounts[i], backend)
      BY DEF Carries
    <2>2. s[k].name \in Names
      <3>1. auth.accounts \in Seq(Account)
        BY DEF Base, SoundFile, File
      <3>2. auth.accounts[i] \in Account
        BY <3>1
      <3> QED
        BY <2>1, <3>2 DEF Account
    <2>3. PICK n \in Names : n = s[k].name
      BY <2>2
    <2>4. /\ given[n] # Unknown /\ ~(auth.exists /\ backend # auth.backend)
                => KeysOf(auth.accounts[i], backend) = given[n]
          /\ backend = "keyring" => KeysOf(auth.accounts[i], backend) = keyring[n]
      BY <2>1, <2>3, LoadedKeys
    <2>5. GivenFor(c, f)[n] # Unknown => s[k].keys = GivenFor(c, f)[n]
      BY <1>1, <2>1, <2>4
    <2> QED
      BY <2>1, <2>3, <2>4, <2>5
  <1> QED
    BY <1>2 DEF Brings, AsKept

(* The secrets that are forgotten. *)
LEMMA ForgetIs ==
    ASSUME NEW name \in Names, NEW backend, NEW X, X = Forget(name, backend)
    PROVE  /\ X \in Seq(Writes)
           /\ \A i \in DOMAIN X : X[i].op = "secret" /\ X[i].name = name /\ backend = "keyring"
  <1>1. CASE backend = "keyring"
    <2>1. X = [i \in 1..2 |-> PutSecret(name, Parts[i], None)]
      BY <1>1, PartsAre DEF Forget
    <2>2. \A i \in 1..2 : Parts[i] \in Range(Parts)
      BY PartsAre
    <2>3. \A i \in 1..2 : PutSecret(name, Parts[i], None) \in SecretWrites
      BY <2>2 DEF SecretWrites, PutSecret, Values
    <2>4. X \in [1..2 -> Writes]
      <3>1. \A i \in 1..2 : PutSecret(name, Parts[i], None) \in Writes
        BY <2>3 DEF Writes
      <3> QED
        BY <2>1, <3>1
    <2>5. X \in Seq(Writes) /\ DOMAIN X = 1..2
      <3>1. PICK n \in Nat : n = 2
        OBVIOUS
      <3>2. X \in [1..n -> Writes]
        BY <2>4, <3>1
      <3>3. X \in Seq(Writes)
        BY <3>2
      <3> QED
        BY <2>4, <3>3
    <2>6. \A i \in 1..2 : X[i].op = "secret" /\ X[i].name = name
      BY <2>1 DEF PutSecret
    <2> QED
      BY <1>1, <2>5, <2>6
  <1>2. CASE backend # "keyring"
    <2>1. X = <<>>
      BY <1>2 DEF Forget
    <2>2. X \in Seq(Writes) /\ DOMAIN X = {}
      BY <2>1
    <2> QED
      BY <2>2
  <1> QED
    BY <1>1, <1>2

(* A logout may start. *)
LEMMA LogoutReady ==
    ASSUME AccountsInv, NEW name \in NamesIn(auth.accounts),
           NEW backend, backend = Backend("keyring"),
           NEW t, t = Without(Loaded(backend), name),
           NEW active, active = ActiveWithout(name, t),
           NEW c, c = [kind |-> "logout", name |-> name],
           NEW W, W = Forget(name, backend) \o Written(t, active, backend)
    PROVE  Ready(W, c, minted)
  <1> DEFINE a == auth.accounts
  <1>1. Base /\ Known /\ OwnersMatch(a, owners)
    BY DEF AccountsInv
  <1>2. /\ a \in Seq(Account) /\ minted \in 0..MaxIds /\ MaxIds \in Nat
        /\ auth.active \in Names \cup {None} /\ ActiveIs(a, auth.active) /\ Distinct(a)
        /\ owners \in [1..MaxIds -> SUBSET (Refs \ {None})]
    BY <1>1, AccountsAssumption DEF Base, SoundFile, File
  <1>3. backend \in {"file", "keyring"}
    BY <1>1, BackendIs
  <1>4. name \in Names /\ \E i \in DOMAIN a : a[i].name = name
    <2>1. PICK i \in DOMAIN a : a[i].name = name
      BY DEF NamesIn
    <2>2. a[i] \in Account
      BY <1>2
    <2> QED
      BY <2>1, <2>2 DEF Account
  <1>5. PICK L : L = Loaded(backend)
    OBVIOUS
  <1>6. /\ L \in Seq(Account) /\ DOMAIN L = DOMAIN a
        /\ \A i \in DOMAIN L : /\ L[i].name = a[i].name /\ L[i].id = a[i].id
                               /\ L[i].ref = a[i].ref
                               /\ L[i].keys = KeysOf(a[i], backend)
        /\ Distinct(L)
        /\ \A i \in DOMAIN L : L[i].id <= minted
    BY <1>1, <1>5, LoadedIs
  <1>7. /\ t \in Seq(Account) /\ Distinct(t)
        /\ \A k \in DOMAIN t : \E i \in DOMAIN L : t[k] = L[i] /\ L[i].name # name
        /\ \A i \in DOMAIN L : L[i].name # name => \E k \in DOMAIN t : t[k] = L[i]
    <2>1. t \in Seq(Account) /\ Distinct(t) /\ OthersOf(t, L, name)
      BY <1>5, <1>6, WithoutIs
    <2> QED
      BY <2>1 DEF OthersOf
  <1>8. c.kind = "logout" /\ c.name = name
    OBVIOUS
  <1> HIDE DEF a
  <1>9. ActiveIs(t, active) /\ active \in Names \cup {None}
    <2>1. CASE auth.active # name
      <3>1. active = auth.active
        BY <2>1 DEF ActiveWithout
      <3>2. PICK i \in DOMAIN a : a[i].name = auth.active
        <4>1. ActiveIs(a, auth.active)
          BY <1>2
        <4>2. PICK i \in DOMAIN a : a[i].name = name
          BY <1>4
        <4> QED
          BY <4>1, <4>2 DEF ActiveIs
      <3>3. i \in DOMAIN L /\ L[i].name = auth.active
        BY <1>6, <3>2
      <3>4. PICK k \in DOMAIN t : t[k] = L[i]
        BY <1>7, <2>1, <3>3
      <3>5. t # <<>> /\ t[k].name = active
        BY <3>1, <3>3, <3>4
      <3> QED
        BY <1>2, <3>1, <3>5 DEF ActiveIs
    <2>2. CASE auth.active = name /\ t = <<>>
      BY <2>2 DEF ActiveWithout, ActiveIs
    <2>3. CASE auth.active = name /\ t # <<>>
      <3>1. active = t[1].name
        BY <2>3 DEF ActiveWithout
      <3>2. 1 \in DOMAIN t
        BY <1>7, <2>3
      <3>3. t[1] \in Account
        BY <1>7, <3>2
      <3> QED
        BY <2>3, <3>1, <3>2, <3>3 DEF ActiveIs, Account
    <2> QED
      BY <2>1, <2>2, <2>3
  <1>10. PICK f : f = FileOf(t, active, backend)
    OBVIOUS
  <1>11. /\ f.backend = backend /\ DOMAIN f.accounts = DOMAIN t
         /\ \A i \in DOMAIN t : /\ f.accounts[i].name = t[i].name /\ f.accounts[i].id = t[i].id
                                /\ f.accounts[i].ref = t[i].ref
    BY <1>3, <1>7, <1>9, <1>10, FileOfIs
  <1>12. GoodList(t, active, minted)
    <2>1. \A k \in DOMAIN t : t[k].id <= minted
      BY <1>6, <1>7
    <2> QED
      BY <1>7, <1>9, <2>1 DEF GoodList
  <1>13. Brings(t, c, f) /\ AsKept(t, backend, c)
    <2>1. Carries(t, backend)
      <3> SUFFICES ASSUME NEW k \in DOMAIN t
                   PROVE  \E i \in DOMAIN a : t[k].name = a[i].name /\ t[k].keys = KeysOf(a[i], backend)
        BY DEF Carries, a
      <3>1. PICK i \in DOMAIN L : t[k] = L[i]
        BY <1>7
      <3> QED
        BY <1>6, <3>1
    <2> QED
      BY <1>1, <1>8, <1>11, <2>1, CarriedKeys
  <1>14. KeepsIds(c, f)
    <2> SUFFICES ASSUME NEW i \in DOMAIN a, a[i].name # name
                 PROVE  \E k \in DOMAIN t : t[k].id = a[i].id /\ t[k].name = a[i].name
      BY <1>8, <1>11 DEF KeepsIds, a
    <2>1. PICK k \in DOMAIN t : t[k] = L[i]
      BY <1>6, <1>7
    <2> QED
      BY <1>6, <2>1
  <1>15. OwnersMatch(f.accounts, OwnersFor(c, f))
    <2> DEFINE o == OwnersFor(c, f)
    <2>1. \A n \in 1..MaxIds : o[n] = IF \E e \in Range(f.accounts) : e.id = n THEN owners[n] ELSE {}
      <3>1. o = [i \in DOMAIN owners |->
                   IF \E e \in Range(f.accounts) : e.id = i THEN owners[i] ELSE {}]
        BY <1>8 DEF OwnersFor
      <3> HIDE DEF o
      <3> QED
        BY <1>2, <3>1
    <2> HIDE DEF o
    <2>2. \A i \in DOMAIN a : a[i].id # NoId => owners[a[i].id] \subseteq {a[i].ref}
      BY <1>1 DEF OwnersMatch
    <2>3. ASSUME NEW k \in DOMAIN t, t[k].id # NoId
          PROVE  o[t[k].id] \subseteq {t[k].ref}
      <3>1. PICK i \in DOMAIN a : t[k] = L[i]
        BY <1>6, <1>7
      <3>2. t[k].id \in 1..MaxIds
        <4>1. t[k] \in Account
          BY <1>7
        <4>2. t[k].id \in 0..MaxIds
          BY <4>1 DEF Account
        <4> QED
          BY <1>2, <2>3, <4>2 DEF NoId
      <3>3. o[t[k].id] \subseteq owners[t[k].id]
        BY <2>1, <3>2
      <3>4. owners[t[k].id] \subseteq {t[k].ref}
        <4>1. t[k].id = a[i].id /\ t[k].ref = a[i].ref
          BY <1>6, <3>1
        <4>2. owners[a[i].id] \subseteq {a[i].ref}
          BY <2>2, <2>3, <4>1
        <4> QED
          BY <4>1, <4>2
      <3> QED
        BY <3>3, <3>4
    <2>4. ASSUME NEW n \in 1..MaxIds, \A k \in DOMAIN t : t[k].id # n
          PROVE  o[n] = {}
      <3>1. ~\E e \in Range(f.accounts) : e.id = n
        BY <1>11, <2>4 DEF Range
      <3> QED
        BY <2>1, <3>1
    <2>5. OwnersMatch(f.accounts, o)
      <3>1. OwnersMatch(t, o)
        BY <2>3, <2>4 DEF OwnersMatch
      <3> QED
        BY <1>11, <3>1, SameOwners
    <2> QED
      BY <2>5 DEF o
  <1>16. PICK V : V = Written(t, active, backend)
    OBVIOUS
  <1>17. /\ Shape(V, Len(V), t, active, backend, {name})
         /\ Len(V) \in Nat /\ Len(V) > 0 /\ DOMAIN V = 1..Len(V)
         /\ \A i \in DOMAIN V : V[i].op \in {"secret", "auth"}
    <2>1. t \in Seq(Account)
      BY <1>7
    <2>2. WellWritten(V, t, active, backend, {name})
      BY <1>3, <1>9, <1>16, <2>1, WrittenHasShape
    <2> QED
      BY <2>2 DEF WellWritten
  <1>18. PICK X : X = Forget(name, backend)
    OBVIOUS
  <1>19. /\ X \in Seq(Writes)
         /\ \A i \in DOMAIN X : X[i].op = "secret" /\ X[i].name = name /\ backend = "keyring"
    BY <1>4, <1>18, ForgetIs
  <1>20. W = X \o V
    BY <1>16, <1>18
  <1>21. PICK k : k = Len(X) + Len(V)
    OBVIOUS
  <1>22. Shape(W, k, t, active, backend, {name})
    <2>1. \A i \in DOMAIN X : X[i].op = "secret" /\ X[i].name \in {name} /\ backend = "keyring"
      BY <1>19
    <2>2. Shape(X \o V, Len(X) + Len(V), t, active, backend, {name})
      BY <1>17, <1>19, <2>1, ShapeAfter
    <2> QED
      BY <1>20, <1>21, <2>2
  <1>23. GoneSafe(W, k, t, {name}, c)
    <2>1. name \notin NamesIn(t)
      BY <1>7 DEF NamesIn
    <2>2. Safe(c, name)
      BY <1>8 DEF Safe
    <2> QED
      BY <2>1, <2>2 DEF GoneSafe
  <1>24. AuthFrame(W, c, minted) /\ SafeChanges(W, c)
    BY <1>1, <1>3, <1>7, <1>9, <1>10, <1>12, <1>13, <1>14, <1>15, <1>22, <1>23, ShapeReady
  <1>25. CommandType(c) /\ c # NoCommand
    BY <1>4, <1>8 DEF CommandType, NoCommand
  <1>26. \A i \in DOMAIN W : W[i].op # "move"
    <2>1. V \in Seq(Writes)
      BY <1>17 DEF Shape
    <2>2. /\ W \in Seq(Writes) /\ Len(W) = Len(X) + Len(V) /\ Len(X) \in Nat
          /\ \A i \in 1..Len(X) : W[i] = X[i]
          /\ \A i \in 1..Len(V) : W[Len(X) + i] = V[i]
      <3>1. X \in Seq(Writes)
        BY <1>19
      <3>2. /\ X \o V \in Seq(Writes) /\ Len(X \o V) = Len(X) + Len(V) /\ Len(X) \in Nat
            /\ \A i \in 1..Len(X) : (X \o V)[i] = X[i]
            /\ \A i \in 1..Len(V) : (X \o V)[Len(X) + i] = V[i]
        BY <2>1, <3>1, JoinedLists
      <3> QED
        BY <1>20, <3>2
    <2>3. ASSUME NEW i \in 1..Len(X)
          PROVE  W[i].op # "move"
      <3>1. i \in DOMAIN X /\ W[i] = X[i]
        BY <1>19, <2>2
      <3> QED
        BY <1>19, <3>1
    <2>4. \A i \in 1..Len(V) : W[Len(X) + i].op # "move"
      BY <1>17, <2>2
    <2> SUFFICES ASSUME NEW i \in 1..(Len(X) + Len(V))
                 PROVE  W[i].op # "move"
      BY <2>2
    <2>5. CASE i <= Len(X)
      <3>1. i \in 1..Len(X)
        BY <2>2, <2>5
      <3> QED
        BY <2>3, <3>1
    <2>6. CASE i > Len(X)
      <3>1. PICK j : j = i - Len(X)
        OBVIOUS
      <3>2. j \in 1..Len(V) /\ i = Len(X) + j
        BY <1>17, <2>2, <2>6, <3>1
      <3> QED
        BY <2>4, <3>2
    <2> QED
      BY <1>17, <2>2, <2>5, <2>6
  <1>27. MoveFrame(W)
    BY <1>26 DEF MoveFrame
  <1>28. minted \in minted..MaxIds
    BY <1>2
  <1> QED
    BY <1>22, <1>24, <1>25, <1>26, <1>27, <1>28 DEF Ready, Shape

(* Another account may be made the active one. *)
LEMMA UseReady ==
    ASSUME AccountsInv, NEW name \in NamesIn(auth.accounts),
           NEW backend, backend = Backend("keyring"),
           NEW c, c = [kind |-> "use"],
           NEW W, W = Written(Loaded(backend), name, backend)
    PROVE  Ready(W, c, minted)
  <1> DEFINE a == auth.accounts
  <1>1. Base /\ Known /\ OwnersMatch(a, owners)
    BY DEF AccountsInv
  <1>2. a \in Seq(Account) /\ minted \in 0..MaxIds /\ MaxIds \in Nat
    BY <1>1, AccountsAssumption DEF Base, SoundFile, File
  <1>3. backend \in {"file", "keyring"}
    BY <1>1, BackendIs
  <1>4. name \in Names /\ \E i \in DOMAIN a : a[i].name = name
    <2>1. PICK i \in DOMAIN a : a[i].name = name
      BY DEF NamesIn
    <2>2. a[i] \in Account
      BY <1>2
    <2> QED
      BY <2>1, <2>2 DEF Account
  <1>5. PICK L : L = Loaded(backend)
    OBVIOUS
  <1>6. /\ L \in Seq(Account) /\ DOMAIN L = DOMAIN a
        /\ \A i \in DOMAIN L : /\ L[i].name = a[i].name /\ L[i].id = a[i].id
                               /\ L[i].ref = a[i].ref
                               /\ L[i].keys = KeysOf(a[i], backend)
        /\ Distinct(L)
        /\ \A i \in DOMAIN L : L[i].id <= minted
    BY <1>1, <1>5, LoadedIs
  <1>7. c.kind = "use"
    OBVIOUS
  <1> HIDE DEF a
  <1>8. name \in Names \cup {None}
    BY <1>4
  <1>9. PICK f : f = FileOf(L, name, backend)
    OBVIOUS
  <1>10. /\ f.backend = backend /\ DOMAIN f.accounts = DOMAIN L
         /\ \A i \in DOMAIN L : /\ f.accounts[i].name = L[i].name /\ f.accounts[i].id = L[i].id
                                /\ f.accounts[i].ref = L[i].ref
    BY <1>3, <1>6, <1>8, <1>9, FileOfIs
  <1>11. GoodList(L, name, minted)
    <2>1. ActiveIs(L, name)
      BY <1>4, <1>6 DEF ActiveIs
    <2> QED
      BY <1>6, <2>1 DEF GoodList
  <1>12. Brings(L, c, f) /\ AsKept(L, backend, c)
    <2>1. Carries(L, backend)
      BY <1>6 DEF Carries, a
    <2> QED
      BY <1>1, <1>7, <1>10, <2>1, CarriedKeys
  <1>13. KeepsIds(c, f)
    BY <1>6, <1>7, <1>10 DEF KeepsIds, a
  <1>14. OwnersMatch(f.accounts, OwnersFor(c, f))
    <2>1. OwnersFor(c, f) = owners
      BY <1>7 DEF OwnersFor
    <2>2. DOMAIN f.accounts = DOMAIN a
      BY <1>6, <1>10
    <2>3. \A i \in DOMAIN a : f.accounts[i].id = a[i].id /\ f.accounts[i].ref = a[i].ref
      BY <1>6, <1>10
    <2>4. OwnersMatch(f.accounts, owners)
      BY <1>1, <2>2, <2>3, SameOwners
    <2> QED
      BY <2>1, <2>4
  <1>15. /\ Shape(W, Len(W), L, name, backend, {})
         /\ Len(W) \in Nat /\ Len(W) > 0 /\ DOMAIN W = 1..Len(W)
         /\ \A i \in DOMAIN W : W[i].op \in {"secret", "auth"}
    <2>1. L \in Seq(Account)
      BY <1>6
    <2>2. name \in Names \cup {None}
      BY <1>8
    <2>3. backend \in {"file", "keyring"}
      BY <1>3
    <2>4. W = Written(L, name, backend)
      BY <1>5
    <2>5. WellWritten(W, L, name, backend, {})
      BY <2>1, <2>2, <2>3, <2>4, WrittenHasShape
    <2> QED
      BY <2>5 DEF WellWritten
  <1>16. GoneSafe(W, Len(W), L, {}, c)
    BY DEF GoneSafe
  <1>17. AuthFrame(W, c, minted) /\ SafeChanges(W, c)
    BY <1>1, <1>3, <1>6, <1>8, <1>9, <1>11, <1>12, <1>13, <1>14, <1>15, <1>16, ShapeReady
  <1>18. CommandType(c) /\ c # NoCommand
    BY <1>7 DEF CommandType, NoCommand
  <1>19. MoveFrame(W)
    BY <1>15 DEF MoveFrame
  <1>20. minted \in minted..MaxIds
    BY <1>2
  <1> QED
    BY <1>15, <1>17, <1>18, <1>19, <1>20 DEF Ready, Shape

----------------------------------------------------------------------------
(* auth rename. *)

(* A rename may start. *)
LEMMA RenameReady ==
    ASSUME AccountsInv, NEW old \in NamesIn(auth.accounts), NEW new \in Names,
           new # old => ~Exists(new),
           NEW backend, backend = Backend("keyring"),
           NEW active, active = IF auth.active = old THEN new ELSE auth.active,
           NEW c, c = [kind |-> "rename", name |-> old, new |-> new],
           NEW W, W = WriteThenForget(Written(Renamed(Loaded(backend), old, new), active, backend),
                                      old, new, backend)
    PROVE  Ready(W, c, minted)
  <1> DEFINE a == auth.accounts
  <1>1. Base /\ Known /\ OwnersMatch(a, owners)
    BY DEF AccountsInv
  <1>2. /\ a \in Seq(Account) /\ minted \in 0..MaxIds /\ MaxIds \in Nat
        /\ auth.active \in Names \cup {None} /\ ActiveIs(a, auth.active) /\ Distinct(a)
        /\ given \in [Names -> Keys \cup {Unknown}]
    BY <1>1, AccountsAssumption DEF Base, SoundFile, File
  <1>3. backend \in {"file", "keyring"}
    BY <1>1, BackendIs
  <1>4. old \in Names /\ \E i \in DOMAIN a : a[i].name = old
    <2>1. PICK i \in DOMAIN a : a[i].name = old
      BY DEF NamesIn
    <2>2. a[i] \in Account
      BY <1>2
    <2> QED
      BY <2>1, <2>2 DEF Account
  <1>5. PICK L : L = Loaded(backend)
    OBVIOUS
  <1>6. /\ L \in Seq(Account) /\ DOMAIN L = DOMAIN a
        /\ \A i \in DOMAIN L : /\ L[i].name = a[i].name /\ L[i].id = a[i].id
                               /\ L[i].ref = a[i].ref
                               /\ L[i].keys = KeysOf(a[i], backend)
        /\ Distinct(L)
        /\ \A i \in DOMAIN L : L[i].id <= minted
    BY <1>1, <1>5, LoadedIs
  <1>7. PICK s : s = Renamed(L, old, new)
    OBVIOUS
  <1>8. c.kind = "rename" /\ c.name = old /\ c.new = new
    OBVIOUS
  <1>9. new # old => \A i \in DOMAIN a : a[i].name # new
    BY DEF Exists, NamesIn
  <1> HIDE DEF a
  <1>10. ASSUME NEW i \in DOMAIN a
         PROVE  /\ s[i] \in Account
                /\ s[i].name = (IF a[i].name = old THEN new ELSE a[i].name)
                /\ s[i].id = a[i].id /\ s[i].ref = a[i].ref /\ s[i].keys = KeysOf(a[i], backend)
    <2>1. L[i] \in Account
      BY <1>6
    <2>2. s[i] = IF L[i].name = old THEN [L[i] EXCEPT !.name = new] ELSE L[i]
      BY <1>6, <1>7 DEF Renamed
    <2>3. CASE L[i].name = old
      <3>1. s[i] = [L[i] EXCEPT !.name = new]
        BY <2>2, <2>3
      <3>2. s[i] \in Account /\ s[i].name = new /\ s[i].id = L[i].id /\ s[i].ref = L[i].ref /\ s[i].keys = L[i].keys
        BY <2>1, <3>1 DEF Account
      <3> QED
        BY <1>6, <2>3, <3>2
    <2>4. CASE L[i].name # old
      BY <1>6, <2>1, <2>2, <2>4
    <2> QED
      BY <2>3, <2>4
  <1>11. DOMAIN s = DOMAIN a
    BY <1>6, <1>7 DEF Renamed
  <1>12. s \in Seq(Account)
    <2>1. DOMAIN a = 1..Len(a) /\ Len(a) \in Nat
      BY <1>2
    <2>2. s = [i \in DOMAIN L |-> IF L[i].name = old THEN [L[i] EXCEPT !.name = new] ELSE L[i]]
      BY <1>7 DEF Renamed
    <2>3. s \in [1..Len(a) -> Account]
      BY <1>6, <1>10, <2>1, <2>2
    <2> QED
      BY <2>1, <2>3
  <1>13. active \in Names \cup {None}
    BY <1>2
  <1>14. PICK f : f = FileOf(s, active, backend)
    OBVIOUS
  <1>15. /\ f.backend = backend /\ DOMAIN f.accounts = DOMAIN s
         /\ \A i \in DOMAIN s : /\ f.accounts[i].name = s[i].name /\ f.accounts[i].id = s[i].id
                                /\ f.accounts[i].ref = s[i].ref
    BY <1>3, <1>12, <1>13, <1>14, FileOfIs
  <1>16. GoodList(s, active, minted)
    <2>1. Distinct(s)
      <3> SUFFICES ASSUME NEW i \in DOMAIN a, NEW j \in DOMAIN a, i # j
                   PROVE  s[i].name # s[j].name /\ (s[i].id = s[j].id => s[i].id = NoId)
        BY <1>11 DEF Distinct
      <3>1. a[i].name # a[j].name /\ (a[i].id = a[j].id => a[i].id = NoId)
        BY <1>2 DEF Distinct
      <3>2. s[i].id = a[i].id /\ s[j].id = a[j].id
        BY <1>10
      <3>3. s[i].name # s[j].name
        BY <1>9, <1>10, <3>1
      <3> QED
        BY <3>1, <3>2, <3>3
    <2>2. ActiveIs(s, active)
      <3>1. PICK i \in DOMAIN a : a[i].name = auth.active
        BY <1>2, <1>4 DEF ActiveIs
      <3>2. s[i].name = active /\ i \in DOMAIN s /\ s # <<>>
        BY <1>10, <1>11, <3>1
      <3> QED
        BY <3>2 DEF ActiveIs
    <2>3. \A i \in DOMAIN s : s[i].id <= minted
      BY <1>6, <1>10, <1>11
    <2> QED
      BY <2>1, <2>2, <2>3 DEF GoodList
  <1>17. Brings(s, c, f)
    <2> SUFFICES ASSUME NEW i \in DOMAIN a, GivenFor(c, f)[s[i].name] # Unknown
                 PROVE  s[i].keys = GivenFor(c, f)[s[i].name]
      BY <1>11 DEF Brings
    <2>1. s[i].name \in Names
      BY <1>10 DEF Account
    <2>2. ~(auth.exists /\ backend # auth.backend)
      <3> SUFFICES ASSUME auth.exists /\ backend # auth.backend
                   PROVE  FALSE
        OBVIOUS
      <3>1. GivenFor(c, f) = [x \in Names |-> Unknown]
        BY <1>15 DEF GivenFor
      <3> QED
        BY <2>1, <3>1
    <2>3. GivenFor(c, f) = [[given EXCEPT ![old] = Unknown] EXCEPT ![new] = given[old]]
      BY <1>8, <1>15, <2>2 DEF GivenFor
    <2>4. GivenFor(c, f)[s[i].name] = given[a[i].name]
      <3>1. CASE a[i].name = old
        <4>1. s[i].name = new
          BY <1>10, <3>1
        <4> QED
          BY <1>2, <2>3, <3>1, <4>1
      <3>2. CASE a[i].name # old
        <4>1. s[i].name = a[i].name /\ s[i].name # new
          BY <1>9, <1>10, <3>2
        <4> QED
          BY <1>2, <2>1, <2>3, <3>2, <4>1
      <3> QED
        BY <3>1, <3>2
    <2>5. KeysOf(a[i], backend) = given[a[i].name]
      BY <1>1, <2>2, <2>4, LoadedKeys DEF a
    <2> QED
      BY <1>10, <2>4, <2>5
  <1>18. AsKept(s, backend, c)
    <2> SUFFICES ASSUME backend = "keyring", NEW i \in DOMAIN a
                 PROVE  Safe(c, s[i].name) \/ s[i].keys = keyring[s[i].name]
      BY <1>11 DEF AsKept
    <2>1. KeysOf(a[i], backend) = keyring[a[i].name]
      BY <1>1, LoadedKeys DEF a
    <2>2. CASE s[i].name = a[i].name
      BY <1>10, <2>1, <2>2
    <2>3. CASE s[i].name # a[i].name
      <3>1. s[i].name = new /\ new # old
        BY <1>10, <2>3
      <3>2. new \notin NamesIn(a)
        BY <1>9, <3>1 DEF NamesIn
      <3> QED
        BY <3>1, <3>2 DEF Safe, a
    <2> QED
      BY <2>2, <2>3
  <1>19. KeepsIds(c, f)
    <2> SUFFICES ASSUME NEW i \in DOMAIN a
                 PROVE  \E j \in DOMAIN f.accounts :
                           /\ f.accounts[j].id = a[i].id
                           /\ f.accounts[j].name = IF a[i].name = old THEN new ELSE a[i].name
      BY <1>8 DEF KeepsIds, a
    <2>1. i \in DOMAIN f.accounts
      BY <1>11, <1>15
    <2>2. /\ f.accounts[i].id = a[i].id
          /\ f.accounts[i].name = IF a[i].name = old THEN new ELSE a[i].name
      BY <1>10, <1>11, <1>15
    <2> QED
      BY <2>1, <2>2
  <1>20. OwnersMatch(f.accounts, OwnersFor(c, f))
    <2>1. OwnersFor(c, f) = owners
      BY <1>8 DEF OwnersFor
    <2>2. DOMAIN f.accounts = DOMAIN a
      BY <1>11, <1>15
    <2>3. \A i \in DOMAIN a : f.accounts[i].id = a[i].id /\ f.accounts[i].ref = a[i].ref
      BY <1>10, <1>11, <1>15
    <2>4. OwnersMatch(f.accounts, owners)
      BY <1>1, <2>2, <2>3, SameOwners
    <2> QED
      BY <2>1, <2>4
  <1>21. PICK V : V = Written(s, active, backend)
    OBVIOUS
  <1>22. PICK gone : gone = IF new = old THEN {} ELSE {old}
    OBVIOUS
  <1>23. /\ Shape(V, Len(V), s, active, backend, gone)
         /\ Len(V) \in Nat /\ Len(V) > 0 /\ DOMAIN V = 1..Len(V)
         /\ \A i \in DOMAIN V : V[i].op \in {"secret", "auth"}
    <2>1. WellWritten(V, s, active, backend, gone)
      BY <1>3, <1>12, <1>13, <1>21, WrittenHasShape
    <2> QED
      BY <2>1 DEF WellWritten
  <1>24. Shape(V, Len(V), s, active, backend, {})
    <2>1. WellWritten(V, s, active, backend, {})
      BY <1>3, <1>12, <1>13, <1>21, WrittenHasShape
    <2> QED
      BY <2>1 DEF WellWritten
  <1>25. PICK X : X = IF new = old THEN <<>> ELSE Forget(old, backend)
    OBVIOUS
  <1>26. /\ X \in Seq(Writes)
         /\ \A i \in DOMAIN X : X[i].op = "secret" /\ X[i].name \in gone /\ backend = "keyring"
    <2>1. CASE new = old
      <3>1. X = <<>>
        BY <1>25, <2>1
      <3>2. X \in Seq(Writes) /\ DOMAIN X = {}
        BY <3>1
      <3> QED
        BY <3>2
    <2>2. CASE new # old
      <3>1. X = Forget(old, backend)
        BY <1>25, <2>2
      <3> QED
        BY <1>4, <1>22, <2>2, <3>1, ForgetIs
    <2> QED
      BY <2>1, <2>2
  <1>27. V \in Seq(Writes)
    BY <1>23 DEF Shape
  <1>28. /\ V \o X \in Seq(Writes) /\ Len(V \o X) = Len(V) + Len(X) /\ Len(X) \in Nat
         /\ \A i \in 1..Len(V) : (V \o X)[i] = V[i]
         /\ \A i \in 1..Len(X) : (V \o X)[Len(V) + i] = X[i]
    <2>1. X \in Seq(Writes)
      BY <1>26
    <2> QED
      BY <1>27, <2>1, JoinedLists
  <1>29. W = V \o X
    <2>1. CASE new = old
      <3>1. W = V
        BY <1>5, <1>7, <1>21, <2>1 DEF WriteThenForget
      <3>2. X = <<>>
        BY <1>25, <2>1
      <3>3. V \o <<>> = V
        BY <1>27
      <3> QED
        BY <3>1, <3>2, <3>3
    <2>2. CASE new # old
      BY <1>5, <1>7, <1>21, <1>25, <2>2 DEF WriteThenForget
    <2> QED
      BY <2>1, <2>2
  <1>30. Shape(W, Len(V), s, active, backend, gone)
    <2>1. \A i \in DOMAIN X : /\ X[i].op # "auth"
                              /\ X[i].op = "secret" => X[i].name \in gone /\ backend = "keyring"
      BY <1>26
    <2>2. Shape(V \o X, Len(V), s, active, backend, gone)
      BY <1>23, <1>26, <2>1, ShapeThen
    <2> QED
      BY <1>29, <2>2
  <1>31. GoneSafe(W, Len(V), s, gone, c)
    <2>1. gone \cap NamesIn(s) = {}
      <3> SUFFICES ASSUME new # old, NEW i \in DOMAIN a, s[i].name = old
                   PROVE  FALSE
        BY <1>11, <1>22 DEF NamesIn
      <3> QED
        BY <1>10
    <2>2. ASSUME NEW i \in 1..(Len(V) - 1), W[i].op = "secret"
          PROVE  W[i].name \in NamesIn(s)
      <3>1. i \in DOMAIN V /\ W[i] = V[i]
        BY <1>23, <1>28, <1>29
      <3>2. PartOf(V[i], s)
        BY <1>24, <2>2, <3>1 DEF Shape, SecretsOf
      <3> QED
        BY <3>1, <3>2 DEF PartOf, NamesIn
    <2> QED
      BY <2>1, <2>2 DEF GoneSafe
  <1>32. AuthFrame(W, c, minted) /\ SafeChanges(W, c)
    BY <1>1, <1>3, <1>12, <1>13, <1>14, <1>16, <1>17, <1>18, <1>19, <1>20, <1>30, <1>31, ShapeReady
  <1>33. CommandType(c) /\ c # NoCommand
    BY <1>4, <1>8 DEF CommandType, NoCommand
  <1>34. \A i \in DOMAIN W : W[i].op # "move"
    <2>1. W \in Seq(Writes) /\ Len(W) = Len(V) + Len(X)
      BY <1>28, <1>29
    <2>2. DOMAIN W = 1..(Len(V) + Len(X))
      BY <2>1
    <2>3. Len(V) \in Nat /\ Len(X) \in Nat
      BY <1>27, <1>28
    <2>4. DOMAIN V = 1..Len(V) /\ DOMAIN X = 1..Len(X)
      BY <1>26, <1>27
    <2>5. /\ \A i \in 1..Len(V) : W[i] = V[i]
          /\ \A i \in 1..Len(X) : W[Len(V) + i] = X[i]
      BY <1>28, <1>29
    <2>6. /\ \A i \in DOMAIN V : V[i].op # "move"
          /\ \A i \in DOMAIN X : X[i].op # "move"
      BY <1>23, <1>26
    <2>7. ASSUME NEW i \in 1..(Len(V) + Len(X)), i > Len(V)
          PROVE  W[i].op # "move"
      <3> DEFINE j == i - Len(V)
      <3>1. j \in 1..Len(X) /\ i = Len(V) + j
        BY <2>3, <2>7
      <3> HIDE DEF j
      <3> QED
        BY <2>4, <2>5, <2>6, <3>1
    <2>8. ASSUME NEW i \in 1..(Len(V) + Len(X)), i <= Len(V)
          PROVE  W[i].op # "move"
      <3>1. i \in 1..Len(V)
        BY <2>3, <2>8
      <3> QED
        BY <2>4, <2>5, <2>6, <3>1
    <2> QED
      BY <2>2, <2>3, <2>7, <2>8
  <1>35. MoveFrame(W)
    BY <1>34 DEF MoveFrame
  <1>36. minted \in minted..MaxIds
    BY <1>2
  <1> QED
    BY <1>30, <1>32, <1>33, <1>34, <1>35, <1>36 DEF Ready, Shape

----------------------------------------------------------------------------
(* Any other command. *)

(* The accounts of s that have no id, up to the i-th. *)
Idless(s, i) == {j \in 1..i : s[j].id = NoId}

(* ensure_ids gives each account that lacks an id one that was not minted. *)
LEMMA WithIdsIs ==
    ASSUME Base, NEW s \in Seq(Account), DOMAIN s = DOMAIN auth.accounts, Distinct(s),
           \A i \in DOMAIN s : s[i].id = auth.accounts[i].id,
           NEW m, m = minted + Cardinality(Lacking), m <= MaxIds,
           NEW t, t = WithIds(s)
    PROVE  /\ t \in Seq(Account) /\ DOMAIN t = DOMAIN s /\ m \in minted..MaxIds
           /\ \A i \in DOMAIN s :
                 /\ t[i].name = s[i].name /\ t[i].ref = s[i].ref /\ t[i].keys = s[i].keys
                 /\ s[i].id # NoId => t[i].id = s[i].id
                 /\ s[i].id = NoId => t[i].id \in (minted + 1)..m
           /\ Distinct(t)
  <1> DEFINE n(i) == Cardinality(Idless(s, i))
  <1>1. /\ minted \in Nat /\ minted <= MaxIds /\ MaxIds \in Nat
        /\ auth.accounts \in Seq(Account)
        /\ \A i \in DOMAIN auth.accounts : auth.accounts[i].id <= minted
    BY AccountsAssumption DEF Base, SoundFile, File
  <1>2. DOMAIN s = 1..Len(s) /\ Len(s) \in Nat
    BY PlacesOf
  <1>3. IsFiniteSet(Lacking) /\ Cardinality(Lacking) \in Nat
    <2>1. IsFiniteSet(1..Len(s))
      <3>1. 1 \in Int /\ Len(s) \in Int
        BY <1>2
      <3> QED
        BY ONLY <3>1, FS_Interval
    <2>2. Lacking \in SUBSET (1..Len(s))
      BY <1>2 DEF Lacking
    <2>3. IsFiniteSet(Lacking)
      BY <2>1, <2>2, FS_Subset
    <2> QED
      BY <2>3, FS_CardinalityType
  <1>4. ASSUME NEW i \in DOMAIN s
        PROVE  IsFiniteSet(Idless(s, i)) /\ n(i) \in Nat /\ n(i) <= Cardinality(Lacking)
    <2>1. Idless(s, i) \in SUBSET Lacking
      <3> SUFFICES ASSUME NEW j \in 1..i, s[j].id = NoId
                   PROVE  j \in Lacking
        BY DEF Idless
      <3>1. j \in DOMAIN s
        BY <1>2
      <3>2. auth.accounts[j].id = NoId
        BY <3>1
      <3> QED
        BY <3>1, <3>2 DEF Lacking
    <2>2. IsFiniteSet(Idless(s, i)) /\ n(i) <= Cardinality(Lacking)
      BY <1>3, <2>1, FS_Subset
    <2> QED
      BY <2>2, FS_CardinalityType
  <1>5. ASSUME NEW i \in DOMAIN s, s[i].id = NoId
        PROVE  n(i) > 0
    <2>1. i \in Idless(s, i)
      BY <1>2, <1>5 DEF Idless
    <2> QED
      BY <1>4, <2>1, FS_EmptySet
  <1>6. ASSUME NEW i \in DOMAIN s, NEW j \in DOMAIN s, i < j, s[j].id = NoId
        PROVE  n(i) # n(j)
    <2>1. Idless(s, i) \in SUBSET Idless(s, j)
      BY <1>2, <1>6 DEF Idless
    <2>2. j \in Idless(s, j) /\ j \notin Idless(s, i)
      BY <1>2, <1>6 DEF Idless
    <2> QED
      BY <1>4, <2>1, <2>2, FS_Subset
  <1>7. t = [i \in DOMAIN s |-> IF s[i].id # NoId THEN s[i] ELSE [s[i] EXCEPT !.id = minted + n(i)]]
    BY DEF WithIds, Idless
  <1> HIDE DEF n
  <1>8. ASSUME NEW i \in DOMAIN s
        PROVE  /\ t[i] \in Account
               /\ t[i].name = s[i].name /\ t[i].ref = s[i].ref /\ t[i].keys = s[i].keys
               /\ s[i].id # NoId => t[i].id = s[i].id
               /\ s[i].id = NoId => t[i].id = minted + n(i)
    <2>1. s[i] \in Account
      OBVIOUS
    <2>2. CASE s[i].id # NoId
      <3>1. t[i] = s[i]
        BY <1>7, <2>2
      <3> QED
        BY <2>1, <2>2, <3>1
    <2>3. CASE s[i].id = NoId
      <3>1. t[i] = [s[i] EXCEPT !.id = minted + n(i)]
        BY <1>7, <2>3
      <3>2. minted + n(i) \in 0..MaxIds
        BY <1>1, <1>3, <1>4
      <3> QED
        BY <2>1, <2>3, <3>1, <3>2 DEF Account
    <2> QED
      BY <2>2, <2>3
  <1>9. t \in Seq(Account) /\ DOMAIN t = DOMAIN s
    <2>1. t \in [1..Len(s) -> Account] /\ DOMAIN t = DOMAIN s
      BY <1>2, <1>7, <1>8
    <2> HIDE DEF n
    <2> QED
      BY <1>2, <2>1
  <1>10. ASSUME NEW i \in DOMAIN s, s[i].id = NoId
         PROVE  t[i].id \in (minted + 1)..m
    <2>1. t[i].id = minted + n(i) /\ n(i) \in Nat /\ n(i) > 0 /\ n(i) <= Cardinality(Lacking)
      BY <1>4, <1>5, <1>8, <1>10
    <2> QED
      BY <1>1, <1>3, <2>1
  <1>11. ASSUME NEW i \in DOMAIN s, NEW j \in DOMAIN s, i < j, t[i].id = t[j].id
         PROVE  t[i].id = NoId
    <2>1. s[i].id <= minted /\ s[j].id <= minted
      BY <1>1
    <2>2. CASE s[j].id = NoId
      <3>1. t[j].id = minted + n(j) /\ n(j) \in Nat /\ n(j) > 0
        BY <1>4, <1>5, <1>8, <2>2
      <3>2. CASE s[i].id = NoId
        <4>1. t[i].id = minted + n(i) /\ n(i) \in Nat
          BY <1>4, <1>8, <3>2
        <4> QED
          BY <1>1, <1>6, <1>11, <2>2, <3>1, <4>1
      <3>3. CASE s[i].id # NoId
        <4>1. t[i].id = s[i].id
          BY <1>8, <3>3
        <4> QED
          BY <1>1, <1>11, <2>1, <3>1, <4>1
      <3> QED
        BY <3>2, <3>3
    <2>3. CASE s[j].id # NoId
      <3>1. t[j].id = s[j].id
        BY <1>8, <2>3
      <3>2. CASE s[i].id = NoId
        <4>1. t[i].id = minted + n(i) /\ n(i) \in Nat /\ n(i) > 0
          BY <1>4, <1>5, <1>8, <3>2
        <4> QED
          BY <1>1, <1>11, <2>1, <3>1, <4>1
      <3>3. CASE s[i].id # NoId
        <4>1. t[i].id = s[i].id
          BY <1>8, <3>3
        <4>2. i # j
          BY <1>2, <1>11
        <4> QED
          BY <1>11, <3>1, <4>1, <4>2 DEF Distinct
      <3> QED
        BY <3>2, <3>3
    <2> QED
      BY <2>2, <2>3
  <1>12. Distinct(t)
    <2> SUFFICES ASSUME NEW i \in DOMAIN s, NEW j \in DOMAIN s, i # j
                 PROVE  t[i].name # t[j].name /\ (t[i].id = t[j].id => t[i].id = NoId)
      BY <1>9 DEF Distinct
    <2>1. t[i].name # t[j].name
      BY <1>8 DEF Distinct
    <2>2. i < j \/ j < i
      BY <1>2
    <2> QED
      BY <1>11, <2>1, <2>2
  <1>13. m \in minted..MaxIds
    BY <1>1, <1>3
  <1> QED
    BY <1>8, <1>9, <1>10, <1>12, <1>13

(* The books of a command go to a scope there is. *)
LEMMA ScopeIs ==
    ASSUME Base, NEW name \in {auth.active} \cup NamesIn(auth.accounts),
           NEW m, m = minted + Cardinality(Lacking), m <= MaxIds
    PROVE  ScopeOf(name) \in Scopes
  <1> DEFINE a == auth.accounts
  <1>1. /\ a \in Seq(Account) /\ Distinct(a) /\ ActiveIs(a, auth.active)
        /\ MaxIds \in Nat
    BY AccountsAssumption DEF Base, SoundFile, File
  <1>2. CASE name = None
    BY <1>1, <1>2 DEF ScopeOf, Scopes, NoId
  <1>3. CASE name # None
    <2>1. PICK i \in DOMAIN a : a[i].name = name
      BY <1>1, <1>3 DEF ActiveIs, NamesIn
    <2>2. PICK t : t = WithIds(a)
      OBVIOUS
    <2>3. t \in Seq(Account) /\ DOMAIN t = DOMAIN a /\ t[i].name = a[i].name /\ Distinct(t)
      BY <1>1, <2>1, <2>2, WithIdsIs
    <2>4. Named(t, name) = t[i]
      BY <2>1, <2>3, NamedIs
    <2>5. t[i] \in Account
      BY <2>1, <2>3
    <2>6. ScopeOf(name) = t[i].id
      BY <1>3, <2>2, <2>4 DEF ScopeOf
    <2> QED
      BY <2>5, <2>6 DEF Account, Scopes
  <1> QED
    BY <1>2, <1>3

(* M moves, each once, the legacy books whose place in the scope is free. *)
MovesAll(M, scope) ==
    /\ \A i \in DOMAIN M : /\ M[i].op = "move" /\ M[i].scope = scope
                           /\ M[i].book \in root /\ dirs[scope][M[i].book] = None
    /\ \A i, j \in DOMAIN M : M[i].book = M[j].book => i = j
    /\ \A b \in root : dirs[scope][b] = None => \E i \in DOMAIN M : M[i].book = b

(* _migrate_legacy_book does. *)
LEMMA MovesIs ==
    ASSUME Base, NEW scope \in Scopes, NEW M, M = Moves(scope)
    PROVE  M \in Seq(Writes) /\ MovesAll(M, scope)
  <1> DEFINE I == {i \in DOMAIN Books : Migrates(scope, Books[i])}
             n == Cardinality(I)
             B == Picked(Books, I)
             at == Ascending(I)
  <1>1. /\ Books \in Seq(STRING) /\ root \subseteq Range(Books)
        /\ \A i, j \in DOMAIN Books : Books[i] = Books[j] => i = j
    BY AccountsAssumption DEF Base, BookFiles
  <1>2. I \in SUBSET DOMAIN Books /\ \A i \in DOMAIN Books : i \in I <=> Migrates(scope, Books[i])
    OBVIOUS
  <1>3. M = [i \in DOMAIN B |-> [op |-> "move", book |-> B[i], scope |-> scope]]
    BY DEF Moves
  <1> HIDE DEF I
  <1>4. /\ DOMAIN B = 1..n /\ n \in Nat
        /\ at \in [1..n -> I]
        /\ \A k \in 1..n : B[k] = Books[at[k]]
        /\ \A k, l \in 1..n : k < l => at[k] < at[l]
        /\ \A i \in I : \E k \in 1..n : at[k] = i
    BY <1>1, <1>2, PickedLists
  <1> HIDE DEF n, B, at
  <1>5. ASSUME NEW k \in 1..n
        PROVE  /\ at[k] \in DOMAIN Books /\ B[k] = Books[at[k]]
               /\ B[k] \in root /\ dirs[scope][B[k]] = None
    <2>1. at[k] \in I /\ B[k] = Books[at[k]]
      BY <1>4
    <2>2. Migrates(scope, Books[at[k]]) /\ at[k] \in DOMAIN Books
      BY <1>2, <2>1
    <2> QED
      BY <2>1, <2>2 DEF Migrates
  <1>6. DOMAIN M = 1..n
    BY <1>3, <1>4
  <1>7. ASSUME NEW k \in 1..n
        PROVE  /\ M[k] \in Writes /\ M[k].op = "move" /\ M[k].scope = scope /\ M[k].book = B[k]
    <2>1. M[k] = [op |-> "move", book |-> B[k], scope |-> scope]
      BY <1>3, <1>4
    <2>2. B[k] \in BookFiles
      BY <1>1, <1>5 DEF BookFiles
    <2> QED
      BY <2>1, <2>2 DEF Writes, MoveWrites
  <1>8. M \in Seq(Writes) /\ Len(M) = n
    <2>1. M \in [1..n -> Writes]
      BY <1>3, <1>4, <1>7
    <2> QED
      BY <1>4, <2>1
  <1>9. ASSUME NEW i \in 1..n, NEW j \in 1..n, M[i].book = M[j].book
        PROVE  i = j
    <2>1. Books[at[i]] = Books[at[j]] /\ at[i] \in DOMAIN Books /\ at[j] \in DOMAIN Books
      BY <1>5, <1>7, <1>9
    <2>2. at[i] = at[j]
      BY <1>1, <2>1
    <2>3. at[i] \in Int
      <3>1. DOMAIN Books = 1..Len(Books)
        BY <1>1
      <3> QED
        BY <2>1, <3>1
    <2>4. ~(i < j) /\ ~(j < i)
      BY <1>4, <2>2, <2>3
    <2> QED
      BY <2>4
  <1>10. ASSUME NEW b \in root, dirs[scope][b] = None
         PROVE  \E i \in 1..n : M[i].book = b
    <2>1. PICK k \in DOMAIN Books : Books[k] = b
      BY <1>1 DEF Range
    <2>2. k \in I
      BY <1>2, <1>10, <2>1 DEF Migrates
    <2>3. PICK i \in 1..n : at[i] = k
      BY <1>4, <2>2
    <2>4. M[i].book = b
      BY <1>5, <1>7, <2>1, <2>3
    <2> QED
      BY <2>4
  <1> QED
    BY <1>4, <1>5, <1>6, <1>7, <1>8, <1>9, <1>10 DEF MovesAll

(* W is V, then M, then O. *)
InParts(W, V, M, O) ==
    \E p, q, r \in Nat :
        /\ DOMAIN V = 1..p /\ DOMAIN M = 1..q /\ DOMAIN O = 1..r
        /\ DOMAIN W = 1..(p + q + r)
        /\ \A i \in 1..p : W[i] = V[i]
        /\ \A i \in 1..q : W[p + i] = M[i]
        /\ \A i \in 1..r : W[p + q + i] = O[i]

(* Three lists in turn. *)
LEMMA InTurn ==
    ASSUME NEW S, NEW V \in Seq(S), NEW M \in Seq(S), NEW O \in Seq(S), NEW W, W = (V \o M) \o O
    PROVE  W \in Seq(S) /\ InParts(W, V, M, O)
  <1>1. PICK R : R = V \o M
    OBVIOUS
  <1>2. /\ R \in Seq(S) /\ Len(R) = Len(V) + Len(M)
        /\ \A i \in 1..Len(V) : R[i] = V[i]
        /\ \A i \in 1..Len(M) : R[Len(V) + i] = M[i]
    BY <1>1, JoinedLists
  <1>3. /\ W \in Seq(S) /\ Len(W) = Len(R) + Len(O)
        /\ \A i \in 1..Len(R) : W[i] = R[i]
        /\ \A i \in 1..Len(O) : W[Len(R) + i] = O[i]
    <2>1. R \in Seq(S) /\ W = R \o O
      BY <1>1, <1>2
    <2> QED
      BY <2>1, JoinedLists
  <1>4. PICK p \in Nat, q \in Nat, r \in Nat : p = Len(V) /\ q = Len(M) /\ r = Len(O)
    OBVIOUS
  <1>5. DOMAIN V = 1..p /\ DOMAIN M = 1..q /\ DOMAIN O = 1..r
    BY <1>4
  <1>6. Len(R) = p + q
    BY <1>2, <1>4
  <1>7. DOMAIN W = 1..(p + q + r)
    <2>1. W \in Seq(S) /\ Len(W) = p + q + r
      BY <1>3, <1>4, <1>6
    <2> QED
      BY <2>1
  <1>8. /\ \A i \in 1..p : R[i] = V[i]
        /\ \A i \in 1..q : R[p + i] = M[i]
        /\ \A i \in 1..(p + q) : W[i] = R[i]
        /\ \A i \in 1..r : W[p + q + i] = O[i]
    BY <1>2, <1>3, <1>4, <1>6
  <1>9. \A i \in 1..p : W[i] = V[i]
    <2> SUFFICES ASSUME NEW i \in 1..p
                 PROVE  W[i] = V[i]
      OBVIOUS
    <2>1. i \in 1..(p + q)
      BY <1>4
    <2> QED
      BY <1>8, <2>1
  <1>10. \A i \in 1..q : W[p + i] = M[i]
    <2> SUFFICES ASSUME NEW i \in 1..q
                 PROVE  W[p + i] = M[i]
      OBVIOUS
    <2>1. p + i \in 1..(p + q)
      BY <1>4
    <2> QED
      BY <1>8, <2>1
  <1> QED
    BY <1>3, <1>5, <1>7, <1>8, <1>9, <1>10 DEF InParts

(* The book a command of a trading kind appends to. *)
LEMMA OwnIs ==
    ASSUME NEW kept \in {<<>>} \cup {<<b>> : b \in Appended}, NEW scope \in Scopes,
           NEW own, own = [i \in DOMAIN kept |-> [op |-> "book", book |-> kept[i], scope |-> scope]]
    PROVE  own \in Seq(Writes) /\ \A i \in DOMAIN own : own[i].op = "book"
  <1>1. Appended \subseteq BookFiles
    BY AccountsAssumption DEF BookFiles
  <1>2. PICK n \in Nat : DOMAIN kept = 1..n /\ \A i \in 1..n : kept[i] \in Appended
    <2>1. CASE kept = <<>>
      <3>1. DOMAIN kept = 1..0
        BY <2>1
      <3> QED
        BY <3>1
    <2>2. CASE \E b \in Appended : kept = <<b>>
      <3>1. DOMAIN kept = 1..1 /\ kept[1] \in Appended
        BY <2>2
      <3> QED
        BY <3>1
    <2> QED
      BY <2>1, <2>2
  <1>3. ASSUME NEW i \in 1..n
        PROVE  own[i] \in Writes /\ own[i].op = "book"
    <2>1. own[i] = [op |-> "book", book |-> kept[i], scope |-> scope]
      BY <1>2
    <2>2. kept[i] \in BookFiles
      BY <1>1, <1>2
    <2> QED
      BY <2>1, <2>2 DEF Writes, BookWrites
  <1>4. own \in [1..n -> Writes]
    BY <1>2, <1>3
  <1>5. own \in Seq(Writes) /\ DOMAIN own = 1..n
    BY <1>4
  <1> QED
    BY <1>3, <1>5

(* A command that moves one book moves all, where no scope has its own. *)
AllPending(W) ==
    NoOwn => \A i \in DOMAIN W : W[i].op = "move" => \A b \in root : Pending(W, b, W[i].scope)

(* auth.json is left alone. *)
OnlyBooks(W) == \A i \in DOMAIN W : W[i].op \notin {"secret", "auth"}

(* Writes of auth.json, then these moves, then writes to books. *)
LEMMA MovesInTurn ==
    ASSUME NEW W, NEW V, NEW M, NEW O, InParts(W, V, M, O),
           \A i \in DOMAIN V : V[i].op \in {"secret", "auth"},
           NEW scope \in Scopes, MovesAll(M, scope),
           \A i \in DOMAIN O : O[i].op = "book",
           Base, RootFrame
    PROVE  /\ MoveFrame(W)
           /\ AllPending(W)
           /\ V = <<>> => OnlyBooks(W)
  <1>1. PICK p \in Nat, q \in Nat, r \in Nat :
           /\ DOMAIN V = 1..p /\ DOMAIN M = 1..q /\ DOMAIN O = 1..r
           /\ DOMAIN W = 1..(p + q + r)
           /\ \A i \in 1..p : W[i] = V[i]
           /\ \A i \in 1..q : W[p + i] = M[i]
           /\ \A i \in 1..r : W[p + q + i] = O[i]
    BY DEF InParts
  <1>2. ASSUME NEW i \in DOMAIN W, i <= p
        PROVE  W[i].op \in {"secret", "auth"} /\ V # <<>>
    <2>1. i \in DOMAIN V
      BY <1>1, <1>2
    <2>2. V # <<>>
      BY <2>1
    <2> QED
      BY <1>1, <2>1, <2>2
  <1>3. ASSUME NEW i \in DOMAIN W, i > p, i <= p + q
        PROVE  /\ (i - p) \in DOMAIN M
               /\ W[i].op = "move" /\ W[i].scope = scope /\ W[i].book = M[i - p].book
               /\ W[i].book \in root /\ dirs[scope][W[i].book] = None
    <2>1. PICK j \in DOMAIN M : i = p + j
      <3>1. i - p \in 1..q /\ i = p + (i - p)
        BY <1>1, <1>3
      <3> QED
        BY <1>1, <3>1
    <2>2. W[i] = M[j] /\ i - p = j
      BY <1>1, <2>1
    <2> QED
      BY <2>2 DEF MovesAll
  <1>4. ASSUME NEW i \in DOMAIN W, i > p + q
        PROVE  W[i].op = "book"
    <2>1. PICK j \in DOMAIN O : i = p + q + j
      <3>1. i - (p + q) \in 1..r /\ i = p + q + (i - (p + q))
        BY <1>1, <1>4
      <3> QED
        BY <1>1, <3>1
    <2> QED
      BY <1>1, <2>1
  <1>5. \A i \in DOMAIN W : i \in Int
    BY <1>1
  <1>6. ASSUME NEW i \in DOMAIN W, W[i].op = "move"
        PROVE  /\ i > p /\ i <= p + q /\ i \in Int
               /\ (i - p) \in DOMAIN M /\ W[i].scope = scope /\ W[i].book = M[i - p].book
               /\ W[i].book \in root /\ dirs[scope][W[i].book] = None
    <2>1. i \in Int /\ i > p /\ i <= p + q
      BY <1>2, <1>4, <1>5, <1>6
    <2> QED
      BY <1>3, <2>1
  <1>7. ASSUME NEW i \in DOMAIN W, NEW j \in DOMAIN W, W[i].op = "move", W[j].op = "move",
               W[i].book = W[j].book
        PROVE  i = j
    <2>1. i \in Int /\ j \in Int /\ i - p = j - p
      BY <1>6, <1>7 DEF MovesAll
    <2> QED
      BY <2>1
  <1>8. ASSUME NEW i \in DOMAIN W, NEW j \in DOMAIN W, W[i].op = "move", W[j].op = "book"
        PROVE  i < j
    <2>1. i \in Int /\ i <= p + q /\ j \in Int
      BY <1>5, <1>6, <1>8
    <2>2. j > p + q
      BY <1>2, <1>3, <1>8, <2>1
    <2> QED
      BY <2>1, <2>2
  <1>9. MoveFrame(W)
    BY <1>6, <1>7, <1>8 DEF MoveFrame
  <1>10. ASSUME NoOwn, NEW i \in DOMAIN W, W[i].op = "move", NEW b \in root
         PROVE  Pending(W, b, W[i].scope)
    <2>1. W[i].scope = scope
      BY <1>6, <1>10
    <2>2. b \in BookFiles /\ dirs \in [Scopes -> [BookFiles -> {None, "own", "legacy"}]]
      BY DEF Base
    <2>3. dirs[scope][b] \in {None, "own", "legacy"}
      BY <2>2
    <2>4. dirs[scope][b] # "legacy" /\ dirs[scope][b] # "own"
      BY <1>10, <2>2 DEF RootFrame, NoOwn
    <2>5. PICK j \in DOMAIN M : M[j].book = b
      BY <2>3, <2>4 DEF MovesAll
    <2>6. p + j \in DOMAIN W /\ W[p + j] = M[j]
      BY <1>1
    <2>7. W[p + j].op = "move" /\ W[p + j].book = b /\ W[p + j].scope = scope
      BY <2>5, <2>6 DEF MovesAll
    <2> QED
      BY <2>1, <2>6, <2>7 DEF Pending
  <1>11. ASSUME NEW i \in DOMAIN W, W[i].op \in {"secret", "auth"}
         PROVE  V # <<>>
    <2>1. i <= p
      BY <1>3, <1>4, <1>5, <1>11
    <2> QED
      BY <1>2, <2>1
  <1> QED
    BY <1>9, <1>10, <1>11 DEF AllPending, OnlyBooks

(* Any command may start. *)
LEMMA RunReady ==
    ASSUME AccountsInv, NEW name \in {auth.active} \cup NamesIn(auth.accounts),
           NEW kept \in {<<>>} \cup {<<b>> : b \in Appended},
           NEW m, m = minted + Cardinality(Lacking), m <= MaxIds,
           NEW scope, scope = ScopeOf(name),
           NEW own, own = [i \in DOMAIN kept |-> [op |-> "book", book |-> kept[i], scope |-> scope]],
           NEW c, c = [kind |-> "run"],
           NEW W, W = EnsureIds(Backend("keyring")) \o Moves(scope) \o own
    PROVE  Ready(W, c, m)
  <1> DEFINE a == auth.accounts
  <1>1. Base /\ Known /\ OwnersMatch(a, owners)
    BY DEF AccountsInv
  <1>2. /\ a \in Seq(Account) /\ MaxIds \in Nat /\ minted \in Nat
        /\ auth.active \in Names \cup {None} /\ ActiveIs(a, auth.active)
        /\ (\A i \in DOMAIN a : a[i].id <= minted)
    BY <1>1, AccountsAssumption DEF Base, SoundFile, File
  <1>3. PICK backend \in {"file", "keyring"} : backend = Backend("keyring")
    BY <1>1, BackendIs
  <1>4. scope \in Scopes
    BY <1>1, ScopeIs
  <1>5. c.kind = "run"
    OBVIOUS
  <1>6. PICK L : L = Loaded(backend)
    OBVIOUS
  <1>7. /\ L \in Seq(Account) /\ DOMAIN L = DOMAIN a
        /\ \A i \in DOMAIN L : /\ L[i].name = a[i].name /\ L[i].id = a[i].id
                               /\ L[i].ref = a[i].ref
                               /\ L[i].keys = KeysOf(a[i], backend)
        /\ Distinct(L)
        /\ (L = <<>>) = (a = <<>>) /\ ActiveIs(L, auth.active)
    BY <1>1, <1>6, LoadedIs
  <1>8. PICK s : s = WithIds(L)
    OBVIOUS
  <1>9. /\ s \in Seq(Account) /\ DOMAIN s = DOMAIN L /\ m \in minted..MaxIds
        /\ \A i \in DOMAIN L :
              /\ s[i].name = L[i].name /\ s[i].ref = L[i].ref /\ s[i].keys = L[i].keys
              /\ L[i].id # NoId => s[i].id = L[i].id
              /\ L[i].id = NoId => s[i].id \in (minted + 1)..m
        /\ Distinct(s)
    <2>1. \A i \in DOMAIN L : L[i].id = auth.accounts[i].id
      BY <1>7
    <2>2. L \in Seq(Account) /\ DOMAIN L = DOMAIN auth.accounts /\ Distinct(L)
      BY <1>7
    <2> QED
      BY <1>1, <1>8, <2>1, <2>2, WithIdsIs
  <1> HIDE DEF a
  <1>10. GoodList(s, auth.active, m)
    <2>1. ActiveIs(s, auth.active)
      <3>1. CASE s = <<>>
        <4>1. L = <<>>
          BY <1>7, <1>9, <3>1
        <4> QED
          BY <1>7, <3>1, <4>1 DEF ActiveIs
      <3>2. CASE s # <<>>
        <4>1. L # <<>>
          BY <1>7, <1>9, <3>2
        <4> QED
          BY <1>7, <1>9, <3>2, <4>1 DEF ActiveIs
      <3> QED
        BY <3>1, <3>2
    <2>2. ASSUME NEW i \in DOMAIN s
          PROVE  s[i].id <= m
      <3>1. L[i].id <= minted /\ m \in Int /\ minted <= m
        <4>1. i \in DOMAIN a /\ L[i].id = a[i].id
          BY <1>7, <1>9
        <4>2. m \in minted..MaxIds
          BY <1>9
        <4> QED
          BY <1>2, <4>1, <4>2
      <3>2. CASE L[i].id # NoId
        <4>1. s[i].id = L[i].id /\ L[i] \in Account
          BY <1>7, <1>9, <3>2
        <4>2. L[i].id \in Int
          BY <1>2, <4>1 DEF Account
        <4> QED
          BY <1>2, <3>1, <4>1, <4>2
      <3>3. CASE L[i].id = NoId
        <4>1. s[i].id \in (minted + 1)..m
          BY <1>9, <3>3
        <4> QED
          BY <1>2, <3>1, <4>1
      <3> QED
        BY <3>2, <3>3
    <2> QED
      BY <1>9, <2>1, <2>2 DEF GoodList
  <1>11. PICK f : f = FileOf(s, auth.active, backend)
    OBVIOUS
  <1>12. /\ f.backend = backend /\ DOMAIN f.accounts = DOMAIN s
         /\ \A i \in DOMAIN s : /\ f.accounts[i].name = s[i].name /\ f.accounts[i].id = s[i].id
                                /\ f.accounts[i].ref = s[i].ref
    BY <1>2, <1>3, <1>9, <1>11, FileOfIs
  <1>13. Brings(s, c, f) /\ AsKept(s, backend, c)
    <2>1. Carries(s, backend)
      BY <1>7, <1>9 DEF Carries, a
    <2> QED
      BY <1>1, <1>5, <1>12, <2>1, CarriedKeys
  <1>14. KeepsIds(c, f)
    <2> SUFFICES ASSUME NEW i \in DOMAIN a, a[i].id # NoId
                 PROVE  \E j \in DOMAIN f.accounts :
                           f.accounts[j].id = a[i].id /\ f.accounts[j].name = a[i].name
      BY <1>5 DEF KeepsIds, a
    <2>1. i \in DOMAIN L /\ L[i].id = a[i].id /\ L[i].name = a[i].name
      BY <1>7
    <2>2. i \in DOMAIN s /\ s[i].id = a[i].id /\ s[i].name = a[i].name
      BY <1>9, <2>1
    <2>3. i \in DOMAIN f.accounts /\ f.accounts[i].id = s[i].id /\ f.accounts[i].name = s[i].name
      BY <1>12, <2>2
    <2> QED
      BY <2>2, <2>3
  <1>15. OwnersMatch(f.accounts, OwnersFor(c, f))
    <2>1. OwnersFor(c, f) = owners
      BY <1>5 DEF OwnersFor
    <2>2. ASSUME NEW i \in DOMAIN a, s[i].id # NoId
          PROVE  owners[s[i].id] \subseteq {s[i].ref}
      <3>1. CASE a[i].id # NoId
        <4>1. s[i].id = a[i].id /\ s[i].ref = a[i].ref
          BY <1>7, <1>9, <3>1
        <4> QED
          BY <1>1, <3>1, <4>1 DEF OwnersMatch
      <3>2. CASE a[i].id = NoId
        <4>1. s[i].id \in (minted + 1)..m
          BY <1>7, <1>9, <3>2
        <4>2. s[i].id \in 1..MaxIds /\ s[i].id > minted
          <5>1. minted \in Nat /\ m \in Nat /\ MaxIds \in Nat /\ m <= MaxIds
            BY <1>2, <1>9
          <5>2. PICK d : d = s[i].id
            OBVIOUS
          <5>3. d \in 1..MaxIds /\ d > minted
            BY <4>1, <5>1, <5>2
          <5> QED
            BY <5>2, <5>3
        <4>3. \A j \in DOMAIN a : a[j].id # s[i].id
          <5> SUFFICES ASSUME NEW j \in DOMAIN a, a[j].id = s[i].id
                       PROVE  FALSE
            OBVIOUS
          <5> QED
            BY <1>2, <4>2
        <4>4. owners[s[i].id] = {}
          BY <1>1, <4>2, <4>3 DEF OwnersMatch
        <4> QED
          BY <4>4
      <3> QED
        BY <3>1, <3>2
    <2>3. ASSUME NEW n \in 1..MaxIds, \A i \in DOMAIN a : s[i].id # n
          PROVE  owners[n] = {}
      <3>1. \A i \in DOMAIN a : a[i].id # n
        <4> SUFFICES ASSUME NEW i \in DOMAIN a, a[i].id = n
                     PROVE  FALSE
          OBVIOUS
        <4>1. a[i].id # NoId
          BY DEF NoId
        <4>2. s[i].id = n
          BY <1>7, <1>9, <4>1
        <4> QED
          BY <2>3, <4>2
      <3> QED
        BY <1>1, <3>1 DEF OwnersMatch
    <2>4. DOMAIN s = DOMAIN a
      BY <1>7, <1>9
    <2>5. OwnersMatch(s, owners)
      BY <2>2, <2>3, <2>4 DEF OwnersMatch
    <2>6. \A i \in DOMAIN s : f.accounts[i].id = s[i].id /\ f.accounts[i].ref = s[i].ref
      BY <1>12
    <2>7. OwnersMatch(f.accounts, owners)
      BY <1>12, <2>5, <2>6, SameOwners
    <2> QED
      BY <2>1, <2>7
  <1>16. PICK V : V = EnsureIds(backend)
    OBVIOUS
  <1>17. /\ V \in Seq(Writes) /\ DOMAIN V = 1..Len(V) /\ Len(V) \in Nat
         /\ \A i \in DOMAIN V : V[i].op \in {"secret", "auth"}
         /\ V = <<>> \/ Shape(V, Len(V), s, auth.active, backend, {})
    <2>1. CASE Lacking = {}
      <3>1. V = <<>>
        BY <1>16, <2>1 DEF EnsureIds
      <3>2. V \in Seq(Writes) /\ DOMAIN V = {} /\ Len(V) = 0
        BY <3>1
      <3> QED
        BY <3>1, <3>2
    <2>2. CASE Lacking # {}
      <3>1. V = Written(s, auth.active, backend)
        BY <1>6, <1>8, <1>16, <2>2 DEF EnsureIds
      <3>2. /\ Shape(V, Len(V), s, auth.active, backend, {})
            /\ Len(V) \in Nat /\ DOMAIN V = 1..Len(V)
            /\ \A i \in DOMAIN V : V[i].op \in {"secret", "auth"}
        <4>1. s \in Seq(Account)
          BY <1>9
        <4>2. auth.active \in Names \cup {None}
          BY <1>2
        <4>3. WellWritten(V, s, auth.active, backend, {})
          BY <1>3, <3>1, <4>1, <4>2, WrittenHasShape
        <4> QED
          BY <4>3 DEF WellWritten
      <3>3. V \in Seq(Writes)
        BY <3>2 DEF Shape
      <3> QED
        BY <3>2, <3>3
    <2> QED
      BY <2>1, <2>2
  <1>18. PICK M : M = Moves(scope)
    OBVIOUS
  <1>19. M \in Seq(Writes) /\ MovesAll(M, scope)
    BY <1>1, <1>4, <1>18, MovesIs
  <1>20. /\ own \in Seq(Writes)
         /\ \A i \in DOMAIN own : own[i].op = "book"
    BY <1>4, OwnIs
  <1>21. W \in Seq(Writes) /\ W = (V \o M) \o own
    <2>1. W = (V \o M) \o own
      BY <1>3, <1>16, <1>18
    <2>2. V \in Seq(Writes) /\ M \in Seq(Writes) /\ own \in Seq(Writes)
      BY <1>17, <1>19, <1>20
    <2>3. W \in Seq(Writes)
      BY <2>1, <2>2, InTurn
    <2> QED
      BY <2>1, <2>3
  <1>22. InParts(W, V, M, own)
    <2>1. V \in Seq(Writes) /\ M \in Seq(Writes) /\ own \in Seq(Writes)
      BY <1>17, <1>19, <1>20
    <2> QED
      BY <1>21, <2>1, InTurn
  <1>23. MoveFrame(W) /\ AllPending(W) /\ (V = <<>> => OnlyBooks(W))
    <2>1. RootFrame
      BY DEF AccountsInv
    <2>2. \A i \in DOMAIN V : V[i].op \in {"secret", "auth"}
      BY <1>17
    <2>3. \A i \in DOMAIN own : own[i].op = "book"
      BY <1>20
    <2>4. MovesAll(M, scope)
      BY <1>19
    <2> QED
      BY <1>1, <1>4, <1>22, <2>1, <2>2, <2>3, <2>4, MovesInTurn
  <1>28. AuthFrame(W, c, m) /\ SafeChanges(W, c)
    <2>1. CASE V = <<>>
      BY <1>23, <2>1 DEF AuthFrame, SafeChanges, OnlyBooks
    <2>2. CASE Shape(V, Len(V), s, auth.active, backend, {})
      <3>1. \A i \in DOMAIN M : M[i].op # "auth" /\ M[i].op # "secret"
        BY <1>19 DEF MovesAll
      <3>2. PICK R : R = V \o M
        OBVIOUS
      <3>3. M \in Seq(Writes) /\ own \in Seq(Writes)
        BY <1>19, <1>20
      <3>4. Shape(R, Len(V), s, auth.active, backend, {})
        BY <2>2, <3>1, <3>2, <3>3, ShapeThen
      <3>5. \A i \in DOMAIN own : own[i].op # "auth" /\ own[i].op # "secret"
        BY <1>20
      <3>6. Shape(R \o own, Len(V), s, auth.active, backend, {})
        BY <3>3, <3>4, <3>5, ShapeThen
      <3>7. Shape(W, Len(V), s, auth.active, backend, {})
        BY <1>21, <3>2, <3>6
      <3>8. GoneSafe(W, Len(V), s, {}, c)
        BY DEF GoneSafe
      <3> QED
        BY <1>1, <1>2, <1>3, <1>9, <1>10, <1>11, <1>13, <1>14, <1>15, <3>7, <3>8, ShapeReady
    <2> QED
      BY <1>17, <2>1, <2>2
  <1>31. CommandType(c) /\ c # NoCommand
    BY <1>5 DEF CommandType, NoCommand
  <1> QED
    BY <1>9, <1>21, <1>23, <1>28, <1>31 DEF Ready, AllPending

----------------------------------------------------------------------------
(* The invariant holds. *)

(* Nothing, or what a release before 0.2.0 left, is sound. *)
LEMMA FirstFile ==
    ASSUME Init
    PROVE  /\ SoundFile(auth, 0) /\ keyring \in [Names -> Keys]
           /\ given \in [Names -> Keys \cup {Unknown}] /\ Known
           /\ \A i \in DOMAIN auth.accounts : auth.accounts[i].id = NoId
  <1>1. NoKeys \in Keys /\ \A x \in Creds : AllOf(x) \in Keys
    BY DEF NoKeys, AllOf, Keys, Values
  <1>2. CASE auth = NoFile /\ keyring = [n \in Names |-> NoKeys] /\ given = [n \in Names |-> Unknown]
    <2>1. /\ auth.exists = FALSE /\ auth.backend = "file" /\ auth.active = None /\ auth.accounts = <<>>
          /\ auth = [exists |-> FALSE, backend |-> "file", active |-> None, accounts |-> <<>>]
      BY <1>2 DEF NoFile
    <2>2. <<>> \in Seq(Account)
      OBVIOUS
    <2>3. auth \in File
      BY <2>1, <2>2 DEF File
    <2>4. DOMAIN auth.accounts = {}
      BY <2>1
    <2>5. SoundFile(auth, 0)
      BY <2>1, <2>3, <2>4 DEF SoundFile, Distinct, ActiveIs
    <2>6. keyring \in [Names -> Keys] /\ given \in [Names -> Keys \cup {Unknown}]
      BY <1>1, <1>2
    <2> QED
      BY <2>4, <2>5, <2>6 DEF Known
  <1>3. ASSUME NEW n \in Names, NEW x \in Creds, NEW backend \in {"file", "keyring"},
               NEW keys, keys = IF backend = "keyring" THEN NoKeys ELSE AllOf(x),
               auth = OldFile(backend, n, keys),
               given = [l \in Names |-> IF l = n THEN AllOf(x) ELSE Unknown],
               keyring \in [Names -> Keys], backend = "keyring" => keyring[n] = AllOf(x)
        PROVE  /\ SoundFile(auth, 0) /\ keyring \in [Names -> Keys]
               /\ given \in [Names -> Keys \cup {Unknown}] /\ Known
               /\ \A i \in DOMAIN auth.accounts : auth.accounts[i].id = NoId
    <2>1. PICK e : e = [name |-> n, id |-> NoId, ref |-> None, keys |-> keys]
      OBVIOUS
    <2>2. /\ auth.exists = TRUE /\ auth.backend = backend /\ auth.active = n /\ auth.accounts = <<e>>
          /\ auth = [exists |-> TRUE, backend |-> backend, active |-> n, accounts |-> <<e>>]
      BY <1>3, <2>1 DEF OldFile
    <2>3. keys \in Keys
      BY <1>1, <1>3
    <2>4. e \in Account /\ e.name = n /\ e.id = NoId /\ e.keys = keys
      BY <2>1, <2>3, AccountsAssumption DEF Account, NoId
    <2>5. <<e>> \in Seq(Account)
      BY <2>4
    <2>6. auth \in File
      BY <2>2, <2>5 DEF File
    <2>7. /\ DOMAIN auth.accounts = {1} /\ auth.accounts[1] = e /\ auth.accounts # <<>>
      BY <2>2
    <2>8. \A i \in DOMAIN auth.accounts : i = 1 /\ auth.accounts[i].name = n /\ auth.accounts[i].id = NoId
      BY <2>4, <2>7
    <2>9. Distinct(auth.accounts)
      BY <2>8 DEF Distinct
    <2>10. ActiveIs(auth.accounts, auth.active)
      <3>1. 1 \in DOMAIN auth.accounts /\ auth.accounts[1].name = auth.active
        BY <2>2, <2>4, <2>7
      <3> QED
        BY <2>7, <3>1 DEF ActiveIs
    <2>11. \A i \in DOMAIN auth.accounts : auth.accounts[i].id <= 0
      BY <2>8 DEF NoId
    <2>12. SoundFile(auth, 0)
      BY <2>2, <2>6, <2>9, <2>10, <2>11 DEF SoundFile
    <2>13. given \in [Names -> Keys \cup {Unknown}] /\ given[n] = AllOf(x)
      BY <1>1, <1>3
    <2>14. KeysOf(auth.accounts[1], auth.backend) = AllOf(x)
      BY <1>3, <2>2, <2>4, <2>7 DEF KeysOf
    <2>15. Known
      BY <2>8, <2>13, <2>14 DEF Known
    <2> QED
      BY <1>3, <2>8, <2>12, <2>13, <2>15
  <1>4. CASE ~(auth = NoFile /\ keyring = [n \in Names |-> NoKeys] /\ given = [n \in Names |-> Unknown])
    <2>1. PICK n \in Names, x \in Creds :
             /\ given = [l \in Names |-> IF l = n THEN AllOf(x) ELSE Unknown]
             /\ \/ /\ auth = OldFile("file", n, AllOf(x))
                   /\ keyring = [l \in Names |-> NoKeys]
                \/ /\ auth = OldFile("keyring", n, NoKeys)
                   /\ keyring = [l \in Names |-> IF l = n THEN AllOf(x) ELSE NoKeys]
      BY <1>4 DEF Init
    <2>2. CASE auth = OldFile("file", n, AllOf(x)) /\ keyring = [l \in Names |-> NoKeys]
      <3>1. keyring \in [Names -> Keys]
        BY <1>1, <2>2
      <3> QED
        BY <1>3, <2>1, <2>2, <3>1
    <2>3. CASE /\ auth = OldFile("keyring", n, NoKeys)
               /\ keyring = [l \in Names |-> IF l = n THEN AllOf(x) ELSE NoKeys]
      <3>1. keyring \in [Names -> Keys] /\ keyring[n] = AllOf(x)
        BY <1>1, <2>3
      <3> QED
        BY <1>3, <2>1, <2>3, <3>1
    <2> QED
      BY <2>1, <2>2, <2>3
  <1> QED
    BY <1>2, <1>4

(* The first state satisfies the invariant. *)
LEMMA InitKeeps == Init => AccountsInv
  <1> SUFFICES ASSUME Init
               PROVE  AccountsInv
    OBVIOUS
  <1>1. /\ SoundFile(auth, 0) /\ keyring \in [Names -> Keys]
        /\ given \in [Names -> Keys \cup {Unknown}] /\ Known
        /\ \A i \in DOMAIN auth.accounts : auth.accounts[i].id = NoId
    BY FirstFile
  <1>2. /\ available = TRUE /\ root \in OldBooks
        /\ cmd = NoCommand /\ todo = <<>> /\ minted = 0
        /\ owners = [i \in 1..MaxIds |-> {}]
        /\ kills = 0 /\ outages = 0
    BY DEF Init
  <1>3. PICK own : dirs = [s \in Scopes |-> [b \in BookFiles |-> IF s = NoId /\ b \in own THEN "own" ELSE None]]
    BY DEF Init
  <1>4. /\ dirs \in [Scopes -> [BookFiles -> {None, "own", "legacy"}]]
        /\ \A s \in Scopes, b \in BookFiles : dirs[s][b] # "legacy"
    BY <1>3 DEF None
  <1>5. root \subseteq BookFiles
    BY <1>2, AccountsAssumption DEF BookFiles
  <1>6. CommandType(cmd)
    BY <1>2 DEF CommandType, NoCommand
  <1>7. todo \in Seq(Writes) /\ DOMAIN todo = {}
    BY <1>2
  <1>8. Base
    <2>1. minted \in 0..MaxIds /\ kills \in 0..MaxKills /\ outages \in 0..MaxFaults
      BY <1>2, AccountsAssumption
    <2>2. owners \in [1..MaxIds -> SUBSET (Refs \ {None})]
      BY <1>2
    <2> QED
      BY <1>1, <1>2, <1>4, <1>5, <1>6, <1>7, <2>1, <2>2 DEF Base
  <1>9. OwnersMatch(auth.accounts, owners)
    <2>1. \A n \in 1..MaxIds : owners[n] = {}
      BY <1>2
    <2> QED
      BY <1>1, <2>1 DEF OwnersMatch
  <1>10. TodoFrame(todo, cmd, minted)
    BY <1>7 DEF TodoFrame, AuthFrame, AllSafe, MoveFrame
  <1>11. RootFrame
    BY <1>4, <1>5 DEF RootFrame
  <1>12. Together
    BY <1>4, <1>7 DEF Together, Gathered, NoLegacy, AllMove
  <1> QED
    BY <1>1, <1>8, <1>9, <1>10, <1>11, <1>12 DEF AccountsInv

(* auth login keeps it. *)
LEMMA LoginKeeps ==
    ASSUME AccountsInv, Login
    PROVE  AccountsInv'
  <1>1. PICK l \in Logins, prefer \in Preferences :
           LET backend == Backend(prefer)
               id == IdAfter(l.name)
               account ==
                   [name |-> l.name, id |-> id, keys |-> l.keys,
                    ref |-> IF Exists(l.name) THEN RefAfter(l.ref, Named(auth.accounts, l.name))
                            ELSE l.ref]
           IN  /\ ~Refused(l.name, l.ref, l.force)
               /\ id <= MaxIds
               /\ minted' = IF id > minted THEN id ELSE minted
               /\ Start([kind |-> "login", name |-> l.name, keys |-> l.keys, id |-> id,
                         ref |-> l.ref, force |-> l.force],
                        Written(Append(Without(Loaded(backend), l.name), account),
                                IF auth.active = None THEN l.name ELSE auth.active, backend))
    BY DEF Login
  <1>2. PICK backend : backend = Backend(prefer)
    OBVIOUS
  <1>3. PICK id : id = IdAfter(l.name)
    OBVIOUS
  <1>4. PICK e : e = [name |-> l.name, id |-> id, keys |-> l.keys,
                      ref |-> IF Exists(l.name) THEN RefAfter(l.ref, Named(auth.accounts, l.name))
                              ELSE l.ref]
    OBVIOUS
  <1>5. PICK c : c = [kind |-> "login", name |-> l.name, keys |-> l.keys, id |-> id,
                      ref |-> l.ref, force |-> l.force]
    OBVIOUS
  <1>6. PICK active : active = IF auth.active = None THEN l.name ELSE auth.active
    OBVIOUS
  <1>7. PICK W : W = Written(Append(Without(Loaded(backend), l.name), e), active, backend)
    OBVIOUS
  <1>8. PICK m : m = IF id > minted THEN id ELSE minted
    OBVIOUS
  <1>9. ~Refused(l.name, l.ref, l.force) /\ id <= MaxIds
    BY <1>1, <1>3
  <1>10. minted' = m /\ Start(c, W)
    BY <1>1, <1>2, <1>3, <1>4, <1>5, <1>6, <1>7, <1>8
  <1>11. Ready(W, c, m)
    BY <1>2, <1>3, <1>4, <1>5, <1>6, <1>7, <1>8, <1>9, LoginReady
  <1>12. Ready(W, c, minted')
    BY <1>10, <1>11
  <1>13. cmd = NoCommand
    BY DEF Login
  <1> QED
    BY <1>10, <1>12, <1>13, StartKeeps

(* auth logout keeps it. *)
LEMMA LogoutKeeps ==
    ASSUME AccountsInv, Logout
    PROVE  AccountsInv'
  <1>1. PICK name \in NamesIn(auth.accounts) :
           LET backend == Backend("keyring")
               kept == Without(Loaded(backend), name)
           IN  Start([kind |-> "logout", name |-> name],
                     Forget(name, backend)
                     \o Written(kept, ActiveWithout(name, kept), backend))
    BY DEF Logout
  <1>2. PICK backend : backend = Backend("keyring")
    OBVIOUS
  <1>3. PICK t : t = Without(Loaded(backend), name)
    OBVIOUS
  <1>4. PICK active : active = ActiveWithout(name, t)
    OBVIOUS
  <1>5. PICK c : c = [kind |-> "logout", name |-> name]
    OBVIOUS
  <1>6. PICK W : W = Forget(name, backend) \o Written(t, active, backend)
    OBVIOUS
  <1>7. Start(c, W)
    BY <1>1, <1>2, <1>3, <1>4, <1>5, <1>6
  <1>8. Ready(W, c, minted)
    BY <1>2, <1>3, <1>4, <1>5, <1>6, LogoutReady
  <1>9. cmd = NoCommand /\ minted' = minted
    BY DEF Logout
  <1>10. Ready(W, c, minted')
    BY <1>8, <1>9
  <1> QED
    BY <1>7, <1>9, <1>10, StartKeeps

(* auth use keeps it. *)
LEMMA UseKeeps ==
    ASSUME AccountsInv, Use
    PROVE  AccountsInv'
  <1>1. PICK name \in NamesIn(auth.accounts) :
           Start([kind |-> "use"], Written(Loaded(Backend("keyring")), name, Backend("keyring")))
    BY DEF Use
  <1>2. PICK backend : backend = Backend("keyring")
    OBVIOUS
  <1>3. PICK c : c = [kind |-> "use"]
    OBVIOUS
  <1>4. PICK W : W = Written(Loaded(backend), name, backend)
    OBVIOUS
  <1>5. Start(c, W)
    BY <1>1, <1>2, <1>3, <1>4
  <1>6. Ready(W, c, minted)
    BY <1>2, <1>3, <1>4, UseReady
  <1>7. cmd = NoCommand /\ minted' = minted
    BY DEF Use
  <1>8. Ready(W, c, minted')
    BY <1>6, <1>7
  <1> QED
    BY <1>5, <1>7, <1>8, StartKeeps

(* auth rename keeps it. *)
LEMMA RenameKeeps ==
    ASSUME AccountsInv, Rename
    PROVE  AccountsInv'
  <1>1. PICK old \in NamesIn(auth.accounts), new \in Names :
           LET backend == Backend("keyring")
               active == IF auth.active = old THEN new ELSE auth.active
           IN  /\ new # old => ~Exists(new)
               /\ Start([kind |-> "rename", name |-> old, new |-> new],
                        WriteThenForget(Written(Renamed(Loaded(backend), old, new), active, backend),
                                        old, new, backend))
    BY DEF Rename
  <1>2. PICK backend : backend = Backend("keyring")
    OBVIOUS
  <1>3. PICK active : active = IF auth.active = old THEN new ELSE auth.active
    OBVIOUS
  <1>4. PICK c : c = [kind |-> "rename", name |-> old, new |-> new]
    OBVIOUS
  <1>5. PICK W : W = WriteThenForget(Written(Renamed(Loaded(backend), old, new), active, backend),
                                     old, new, backend)
    OBVIOUS
  <1>6. Start(c, W) /\ (new # old => ~Exists(new))
    BY <1>1, <1>2, <1>3, <1>4, <1>5
  <1>7. Ready(W, c, minted)
    BY <1>2, <1>3, <1>4, <1>5, <1>6, RenameReady
  <1>8. cmd = NoCommand /\ minted' = minted
    BY DEF Rename
  <1>9. Ready(W, c, minted')
    BY <1>7, <1>8
  <1> QED
    BY <1>6, <1>8, <1>9, StartKeeps

(* Any other command keeps it. *)
LEMMA RunKeeps ==
    ASSUME AccountsInv, RunCommand
    PROVE  AccountsInv'
  <1>1. PICK name \in {auth.active} \cup NamesIn(auth.accounts), kept \in {<<>>} \cup {<<b>> : b \in Appended} :
           Start([kind |-> "run"],
                 EnsureIds(Backend("keyring")) \o Moves(ScopeOf(name))
                 \o [i \in DOMAIN kept |-> [op |-> "book", book |-> kept[i], scope |-> ScopeOf(name)]])
    BY DEF RunCommand
  <1>2. PICK scope : scope = ScopeOf(name)
    OBVIOUS
  <1>3. PICK own : own = [i \in DOMAIN kept |-> [op |-> "book", book |-> kept[i], scope |-> scope]]
    OBVIOUS
  <1>4. PICK c : c = [kind |-> "run"]
    OBVIOUS
  <1>5. PICK W : W = EnsureIds(Backend("keyring")) \o Moves(scope) \o own
    OBVIOUS
  <1>6. PICK m : m = minted + Cardinality(Lacking)
    OBVIOUS
  <1>7. Start(c, W)
    BY <1>1, <1>2, <1>3, <1>4, <1>5
  <1>8. cmd = NoCommand /\ minted' = m /\ m <= MaxIds
    BY <1>6 DEF RunCommand
  <1>9. Ready(W, c, m)
    BY <1>2, <1>3, <1>4, <1>5, <1>6, <1>8, RunReady
  <1>10. Ready(W, c, minted')
    BY <1>8, <1>9
  <1> QED
    BY <1>7, <1>8, <1>10, StartKeeps

(* A step that changes nothing keeps it. *)
LEMMA StutterKeeps ==
    ASSUME AccountsInv, UNCHANGED vars
    PROVE  AccountsInv'
  <1>1. /\ auth' = auth /\ keyring' = keyring /\ available' = available /\ root' = root /\ dirs' = dirs
        /\ cmd' = cmd /\ todo' = todo /\ minted' = minted /\ given' = given /\ owners' = owners
        /\ kills' = kills /\ outages' = outages
    BY DEF vars, authVars, bookVars, ghostVars, boundVars
  <1>2. Base' /\ Known' /\ OwnersMatch(auth.accounts, owners)'
    <2>1. SoundFile(auth, minted)'
      BY <1>1 DEF AccountsInv, Base, SoundFile, Distinct, ActiveIs
    <2>2. CommandType(cmd)'
      BY <1>1 DEF AccountsInv, Base, CommandType
    <2>3. Base'
      BY <1>1, <2>1, <2>2 DEF AccountsInv, Base
    <2>4. Known' /\ OwnersMatch(auth.accounts, owners)'
      BY <1>1 DEF AccountsInv, Known, KeysOf, OwnersMatch
    <2> QED
      BY <2>3, <2>4
  <1>3. AuthFrame(todo, cmd, minted)'
    <2>1. AuthFrame(todo, cmd, minted)
      BY DEF AccountsInv, TodoFrame
    <2>2. ASSUME NEW k \in DOMAIN todo, todo[k].op = "auth"
          PROVE  AuthGood(todo, k, cmd, minted)'
      <3>1. AuthGood(todo, k, cmd, minted)
        BY <2>1, <2>2 DEF AuthFrame
      <3>2. SoundFile(todo[k].file, minted)' /\ (todo[k].file.exists)'
        BY <1>1, <3>1 DEF AuthGood, SoundFile, Distinct, ActiveIs
      <3>3. GivenFor(cmd, todo[k].file)' = GivenFor(cmd, todo[k].file)
        BY <1>1 DEF GivenFor
      <3>4. Restores(todo, k, cmd)'
        <4>1. Restores(todo, k, cmd)
          BY <3>1 DEF AuthGood
        <4>2. ASSUME NEW n, NEW v
              PROVE  Settles(keyring, todo, k, n, v)' = Settles(keyring, todo, k, n, v)
          BY <1>1 DEF Settles
        <4> QED
          BY <1>1, <3>3, <4>1, <4>2 DEF Restores
      <3>5. KeepsIds(cmd, todo[k].file)'
        BY <1>1, <3>1 DEF AuthGood, KeepsIds
      <3>6. OwnersFor(cmd, todo[k].file)' = OwnersFor(cmd, todo[k].file)
        BY <1>1 DEF OwnersFor
      <3>7. OwnersMatch(todo[k].file.accounts, OwnersFor(cmd, todo[k].file))'
        BY <1>1, <3>1, <3>6 DEF AuthGood, OwnersMatch
      <3> QED
        BY <3>2, <3>4, <3>5, <3>7 DEF AuthGood
    <2> QED
      BY <1>1, <2>1, <2>2 DEF AuthFrame
  <1>4. AllSafe(todo, cmd)' /\ MoveFrame(todo)'
    BY <1>1 DEF AccountsInv, TodoFrame, AllSafe, SafeAt, Safe, NamesIn, MoveFrame
  <1>5. RootFrame' /\ Together'
    BY <1>1 DEF AccountsInv, RootFrame, Together, NoOwn, Gathered, NoLegacy, LegacyAt, Pending, AllMove
  <1> QED
    BY <1>2, <1>3, <1>4, <1>5 DEF AccountsInv, TodoFrame

(* Every step keeps it. *)
LEMMA StepKeeps == AccountsInv /\ [Next]_vars => AccountsInv'
  <1> SUFFICES ASSUME AccountsInv, [Next]_vars
               PROVE  AccountsInv'
    OBVIOUS
  <1>1. CASE Login
    BY <1>1, LoginKeeps
  <1>2. CASE Logout
    BY <1>2, LogoutKeeps
  <1>3. CASE Use
    BY <1>3, UseKeeps
  <1>4. CASE Rename
    BY <1>4, RenameKeeps
  <1>5. CASE RunCommand
    BY <1>5, RunKeeps
  <1>6. CASE WriteSecret
    BY <1>6, SecretKeeps
  <1>7. CASE WriteAuth
    BY <1>7, AuthKeeps
  <1>8. CASE MoveBook
    BY <1>8, MoveKeeps
  <1>9. CASE WriteBook
    BY <1>9, BookKeeps
  <1>10. CASE Kill
    BY <1>10, KillKeeps
  <1>11. CASE KeyringChanges
    BY <1>11, KeyringKeeps
  <1>12. CASE UNCHANGED vars
    BY <1>12, StutterKeeps
  <1> QED
    BY <1>1, <1>2, <1>3, <1>4, <1>5, <1>6, <1>7, <1>8, <1>9, <1>10, <1>11, <1>12 DEF Next

(* In every state of every run. *)
THEOREM AccountsInvHolds == Spec => []AccountsInv
  BY InitKeeps, StepKeeps, PTL DEF Spec

----------------------------------------------------------------------------
(* Theorems. *)

(* The types; no two accounts share a name or an id, and one of them is
   active. *)
THEOREM AccountsTypeOK == Spec => []TypeOK
  <1>1. AccountsInv => TypeOK
    <2> SUFFICES ASSUME AccountsInv
                 PROVE  TypeOK
      OBVIOUS
    <2>1. Base
      BY DEF AccountsInv
    <2>2. SoundFile(auth, minted)
      BY <2>1 DEF Base
    <2>3. /\ auth.exists \in BOOLEAN /\ auth.backend \in {"file", "keyring"}
          /\ auth.active \in Names \cup {None} /\ auth.accounts \in Seq(Account)
      BY <2>2 DEF SoundFile, File
    <2>4. IF auth.accounts = <<>> THEN auth.active = None ELSE Exists(auth.active)
      <3>1. ActiveIs(auth.accounts, auth.active)
        BY <2>2 DEF SoundFile
      <3>2. CASE auth.accounts = <<>>
        BY <3>1, <3>2 DEF ActiveIs
      <3>3. CASE auth.accounts # <<>>
        <4>1. PICK i \in DOMAIN auth.accounts : auth.accounts[i].name = auth.active
          BY <3>1, <3>3 DEF ActiveIs
        <4>2. Exists(auth.active)
          BY <4>1 DEF Exists, NamesIn
        <4> QED
          BY <3>3, <4>2
      <3> QED
        BY <3>2, <3>3
    <2>5. \A i \in DOMAIN auth.accounts : auth.accounts[i].keys \in [Range(Parts) -> Values]
      <3> SUFFICES ASSUME NEW i \in DOMAIN auth.accounts
                   PROVE  auth.accounts[i].keys \in Keys
        BY DEF Keys
      <3>1. auth.accounts[i] \in Account
        BY <2>3
      <3> QED
        BY <3>1 DEF Account
    <2>6. \A i, j \in DOMAIN auth.accounts : i # j =>
             /\ auth.accounts[i].name # auth.accounts[j].name
             /\ auth.accounts[i].id = auth.accounts[j].id => auth.accounts[i].id = NoId
      BY <2>2 DEF SoundFile, Distinct
    <2>7. owners \in [1..MaxIds -> SUBSET {OwnerOf[c] : c \in Creds}]
      BY <2>1 DEF Base, Refs
    <2>8. /\ keyring \in [Names -> [Range(Parts) -> Values]]
          /\ available \in BOOLEAN
          /\ root \subseteq BookFiles
          /\ dirs \in [Scopes -> [BookFiles -> {None, "own", "legacy"}]]
          /\ minted \in 0..MaxIds
          /\ kills \in 0..MaxKills /\ outages \in 0..MaxFaults
      BY <2>1 DEF Base, Keys
    <2> QED
      BY <2>3, <2>4, <2>5, <2>6, <2>7, <2>8 DEF TypeOK
  <1> QED
    BY <1>1, AccountsInvHolds, PTL

(* Whatever command is killed and whenever the keyring goes away, an account
   whose credentials are defined reads them back (auth_store). *)
THEOREM CredentialsSurviveHolds == Spec => []CredentialsSurvive
  <1>1. AccountsInv => CredentialsSurvive
    BY DEF AccountsInv, Known, CredentialsSurvive
  <1> QED
    BY <1>1, AccountsInvHolds, PTL

(* No two exchange accounts are ever proven to own the books of one id. *)
THEOREM OneOwner == Spec => []OneOwnerPerBook
  <1>1. AccountsInv => OneOwnerPerBook
    <2> SUFFICES ASSUME AccountsInv, NEW n \in 1..MaxIds
                 PROVE  Cardinality(owners[n]) <= 1
      BY DEF OneOwnerPerBook
    <2>1. OwnersMatch(auth.accounts, owners)
      BY DEF AccountsInv
    <2>2. \E r : owners[n] \subseteq {r}
      <3>1. CASE \E i \in DOMAIN auth.accounts : auth.accounts[i].id = n
        <4>1. PICK i \in DOMAIN auth.accounts : auth.accounts[i].id = n
          BY <3>1
        <4>2. n # NoId
          BY DEF NoId
        <4>3. owners[n] \subseteq {auth.accounts[i].ref}
          BY <2>1, <4>1, <4>2 DEF OwnersMatch
        <4> QED
          BY <4>3
      <3>2. CASE \A i \in DOMAIN auth.accounts : auth.accounts[i].id # n
        <4>1. owners[n] = {}
          BY <2>1, <3>2 DEF OwnersMatch
        <4> QED
          BY <4>1
      <3> QED
        BY <3>1, <3>2
    <2>3. PICK r : owners[n] \in SUBSET {r}
      BY <2>2
    <2>4. IsFiniteSet({r}) /\ Cardinality({r}) = 1
      BY FS_Singleton
    <2>5. Cardinality(owners[n]) <= Cardinality({r})
      BY <2>3, <2>4, FS_Subset
    <2> QED
      BY <2>4, <2>5
  <1> QED
    BY <1>1, AccountsInvHolds, PTL

(* No write of auth.json leaves an id, and the directory it names, without its
   account (save_auth). *)
THEOREM BooksKeepTheirAccount == Spec => BookNeverStranded
  <1>1. AccountsInv /\ [Next]_vars =>
           [\A i \in DOMAIN auth.accounts :
              LET e == auth.accounts[i]
              IN  \/ e.id = NoId
                  \/ \E j \in DOMAIN auth'.accounts :
                        /\ auth'.accounts[j].id = e.id
                        /\ auth'.accounts[j].name =
                              IF cmd.kind = "rename" /\ e.name = cmd.name THEN cmd.new ELSE e.name
                  \/ cmd.kind = "logout" /\ cmd.name = e.name]_<<auth>>
    <2> SUFFICES ASSUME AccountsInv, [Next]_vars, auth' # auth
                 PROVE  \A i \in DOMAIN auth.accounts :
                          LET e == auth.accounts[i]
                          IN  \/ e.id = NoId
                              \/ \E j \in DOMAIN auth'.accounts :
                                    /\ auth'.accounts[j].id = e.id
                                    /\ auth'.accounts[j].name =
                                          IF cmd.kind = "rename" /\ e.name = cmd.name THEN cmd.new ELSE e.name
                              \/ cmd.kind = "logout" /\ cmd.name = e.name
      OBVIOUS
    <2>1. WriteAuth
      BY DEF Next, Login, Logout, Use, Rename, RunCommand, Start, WriteSecret, MoveBook, WriteBook, Kill,
             KeyringChanges, vars, authVars
    <2>2. 1 \in DOMAIN todo /\ todo[1].op = "auth" /\ auth' = todo[1].file
      <3>1. todo \in Seq(Writes) /\ todo # <<>>
        BY <2>1 DEF AccountsInv, Base, WriteAuth
      <3>2. 1 \in DOMAIN todo
        BY <3>1
      <3> QED
        BY <2>1, <3>2 DEF WriteAuth, Write
    <2>3. AuthGood(todo, 1, cmd, minted)
      BY <2>2 DEF AccountsInv, TodoFrame, AuthFrame
    <2>4. KeepsIds(cmd, auth')
      BY <2>2, <2>3 DEF AuthGood
    <2> QED
      BY <2>4 DEF KeepsIds
  <1> QED
    BY <1>1, AccountsInvHolds, PTL DEF Spec, BookNeverStranded

(* What the second part of BooksOnlyMove says of a state. *)
SamePlace ==
    (kills = 0 /\ todo = <<>> /\ \A s \in Scopes, b \in BookFiles : dirs[s][b] # "own") =>
        \A b, c \in BookFiles : Places(b) # {} /\ Places(c) # {} => Places(b) = Places(c)

(* Without kills, legacy books that have moved have moved to one scope. *)
LEMMA GatheredPlaces ==
    ASSUME AccountsInv
    PROVE  SamePlace
  <1> SUFFICES ASSUME kills = 0, todo = <<>>, NoOwn,
                      NEW b \in BookFiles, NEW c \in BookFiles, Places(b) # {}, Places(c) # {}
               PROVE  Places(b) = Places(c)
    BY DEF SamePlace, NoOwn
  <1>1. Gathered
    BY DEF AccountsInv, Together
  <1>2. DOMAIN todo = {}
    OBVIOUS
  <1>3. CASE NoLegacy
    <2>1. \A d \in BookFiles : Places(d) # {} => Places(d) = {-1}
      BY <1>3 DEF NoLegacy, Places
    <2> QED
      BY <2>1
  <1>4. CASE \E s \in Scopes : LegacyAt(s) /\ \A d \in root : Pending(todo, d, s)
    <2>1. PICK s \in Scopes : LegacyAt(s) /\ \A d \in root : Pending(todo, d, s)
      BY <1>4
    <2>2. root = {}
      BY <1>2, <2>1 DEF Pending
    <2>3. \A d \in BookFiles : Places(d) # {} => Places(d) = {s}
      BY <2>1, <2>2 DEF LegacyAt, Places
    <2> QED
      BY <2>3
  <1> QED
    BY <1>1, <1>3, <1>4 DEF Gathered

(* A step of book b and its places. *)
LEMMA PlacesKept ==
    ASSUME AccountsInv, [Next]_vars, NEW b \in BookFiles
    PROVE  /\ Cardinality(Places(b)') = Cardinality(Places(b))
           /\ \A s \in Scopes : dirs[s][b] = "own" => dirs'[s][b] = "own"
  <1>1. /\ todo \in Seq(Writes) /\ dirs \in [Scopes -> [BookFiles -> {None, "own", "legacy"}]]
        /\ MoveFrame(todo) /\ RootFrame
    BY DEF AccountsInv, Base, TodoFrame
  <1>2. CASE root' = root /\ dirs' = dirs
    <2>1. Places(b)' = Places(b)
      BY <1>2 DEF Places
    <2> QED
      BY <1>2, <2>1
  <1>3. CASE MoveBook
    <2>1. todo # <<>> /\ todo[1].op = "move"
      BY <1>3 DEF MoveBook, Write
    <2>2. 1 \in DOMAIN todo /\ todo[1] \in Writes
      BY <1>1, <2>1
    <2>3. PICK d, s : d = todo[1].book /\ s = todo[1].scope
      OBVIOUS
    <2>4. d \in BookFiles /\ s \in Scopes
      BY <2>1, <2>2, <2>3, WriteKinds
    <2>5. d \in root /\ dirs[s][d] = None
      BY <1>1, <2>1, <2>2, <2>3 DEF MoveFrame
    <2>6. root' = root \ {d} /\ dirs' = [dirs EXCEPT ![s][d] = "legacy"]
      BY <1>3, <2>3 DEF MoveBook, Write
    <2>7. \A t \in Scopes : dirs'[t][b] = IF t = s /\ b = d THEN "legacy" ELSE dirs[t][b]
      BY <1>1, <2>4, <2>6
    <2>8. ASSUME NEW t \in Scopes, dirs[t][b] = "own"
          PROVE  dirs'[t][b] = "own"
      <3>1. ~(t = s /\ b = d)
        BY <2>5, <2>8 DEF None
      <3> QED
        BY <2>7, <2>8, <3>1
    <2>9. CASE b = d
      <3>1. Places(b) = {-1}
        BY <1>1, <2>5, <2>9 DEF Places, RootFrame
      <3>2. Places(b)' = {s}
        <4>1. b \notin root'
          BY <2>6, <2>9
        <4>2. \A t \in Scopes : dirs'[t][b] = "legacy" <=> t = s
          BY <1>1, <2>4, <2>5, <2>7, <2>9 DEF RootFrame
        <4> QED
          BY <2>4, <4>1, <4>2 DEF Places
      <3> QED
        BY <2>8, <3>1, <3>2, FS_Singleton
    <2>10. CASE b # d
      <3>1. Places(b)' = Places(b)
        BY <2>6, <2>7, <2>10 DEF Places
      <3> QED
        BY <2>8, <3>1
    <2> QED
      BY <2>9, <2>10
  <1>4. CASE WriteBook
    <2>1. todo # <<>> /\ todo[1].op = "book"
      BY <1>4 DEF WriteBook, Write
    <2>2. 1 \in DOMAIN todo /\ todo[1] \in Writes
      BY <1>1, <2>1
    <2>3. PICK d, s : d = todo[1].book /\ s = todo[1].scope
      OBVIOUS
    <2>4. d \in BookFiles /\ s \in Scopes
      BY <2>1, <2>2, <2>3, WriteKinds
    <2>5. root' = root /\ dirs' = [dirs EXCEPT ![s][d] = IF @ = None THEN "own" ELSE @]
      BY <1>4, <2>3 DEF WriteBook, Write
    <2>6. \A t \in Scopes : dirs'[t][b] = IF t = s /\ b = d /\ dirs[t][b] = None THEN "own" ELSE dirs[t][b]
      BY <1>1, <2>4, <2>5
    <2>7. \A t \in Scopes : dirs'[t][b] = "legacy" <=> dirs[t][b] = "legacy"
      BY <2>6 DEF None
    <2>8. Places(b)' = Places(b)
      BY <2>5, <2>7 DEF Places
    <2>9. \A t \in Scopes : dirs[t][b] = "own" => dirs'[t][b] = "own"
      BY <2>6
    <2> QED
      BY <2>8, <2>9
  <1>5. (root' = root /\ dirs' = dirs) \/ MoveBook \/ WriteBook
    BY DEF Next, Login, Logout, Use, Rename, RunCommand, Start, WriteSecret, WriteAuth, Kill,
           KeyringChanges, vars, bookVars
  <1> QED
    BY <1>2, <1>3, <1>4, <1>5

(* The migration moves the legacy books, each one whole, never over a book of
   the scope, and without a kill all of them to one scope
   (_migrate_legacy_book). *)
THEOREM BooksOnlyMoveHolds == Spec => BooksOnlyMove
  <1>1. AccountsInv => SamePlace
    BY GatheredPlaces
  <1>2. AccountsInv /\ [Next]_vars =>
           [\A b \in BookFiles :
              /\ Cardinality(Places(b)') = Cardinality(Places(b))
              /\ \A s \in Scopes : dirs[s][b] = "own" => dirs'[s][b] = "own"]_<<root, dirs>>
    BY PlacesKept
  <1>3. Spec => []SamePlace
    BY <1>1, AccountsInvHolds, PTL
  <1>4. Spec => [][\A b \in BookFiles :
              /\ Cardinality(Places(b)') = Cardinality(Places(b))
              /\ \A s \in Scopes : dirs[s][b] = "own" => dirs'[s][b] = "own"]_<<root, dirs>>
    BY <1>2, AccountsInvHolds, PTL DEF Spec
  <1> QED
    BY <1>3, <1>4 DEF BooksOnlyMove, SamePlace

=============================================================================
