---------------------------- MODULE SessionProofs ----------------------------
(***************************************************************************)
(* Accounts and token pairs, for every number of identities, handles,      *)
(* accounts, pairs and calls in flight.                                    *)
(***************************************************************************)
EXTENDS Sessions, FiniteSetTheorems, TLAPS

AccountType ==
  [state : {"none", "live", "gone"}, identity : Identity \union {NoIdentity},
   handle : Handle \union {NoHandle}]

PairType ==
  [owner : Account \union {None}, parent : Pair \union {None},
   row : {"none", "active", "revoked", "deleted"}, access : BOOLEAN, fresh : BOOLEAN]

CallType ==
  [at : {"idle", "findByFirebaseUid", "findByHandle", "createUser", "issue", "findActiveByHash",
         "findById", "revokeById", "revokeAll", "softDelete", "findUnique", "revokeByHash", "update"},
   op : {"none", "signIn", "refresh", "logout", "profile", "delete"},
   pair : Pair \union {None}, account : Account \union {None},
   identity : Identity \union {NoIdentity}, handle : Handle \union {NoHandle}, try : Nat]

TypeInv ==
  /\ accounts \in [Account -> AccountType]
  /\ pairs \in [Pair -> PairType]
  /\ req \in [Process -> CallType]

(* What a call relies on between two of its queries: which table row it is
   about, and that a refresh has spent its token by the time it creates. *)
FitsIn(c, rows) ==
  /\ c.try # 0
  /\ c.pair # None => rows[c.pair].row # "none"
  /\ c.at \in {"createUser", "findByFirebaseUid"} => c.identity \in Identity
  /\ c.at = "findByHandle" => c.op = "profile" \/ c.identity \in Identity
  /\ c.at = "createUser" \/ c.op = "profile" => c.handle \in Handle
  /\ c.at \in {"revokeById", "revokeAll", "softDelete", "update", "issue"} \/ c.op = "profile" => c.account \in Account
  /\ c.at = "findById" => IF c.op = "refresh" THEN c.pair \in Pair ELSE c.account \in Account
  /\ c.at \in {"findActiveByHash", "revokeById", "findUnique", "revokeByHash"} => c.pair \in Pair
  /\ c.at \in {"findActiveByHash", "revokeById"} => c.op = "refresh"
  /\ c.at = "update" => c.op = "profile"
  /\ c.at = "issue" /\ c.pair # None =>
       c.op = "refresh" /\ rows[c.pair].row \in {"revoked", "deleted"}

Fits(c) == FitsIn(c, pairs)

CallInv == \A p \in Process : Fits(req[p])

(* A token in use has an owner, a token exchanged is spent for good. *)
PairInv ==
  \A t \in Pair :
    /\ pairs[t].row # "none" => pairs[t].owner \in Account
    /\ pairs[t].access \/ pairs[t].fresh => pairs[t].row # "none"
    /\ pairs[t].parent # None => pairs[pairs[t].parent].row \in {"revoked", "deleted"}

IInv == TypeInv /\ CallInv /\ PairInv /\ OneAccountPerIdentity

-----------------------------------------------------------------------------
(* A step of p that only moves its own call. *)
LEMMA CallMoves ==
  ASSUME IInv, NEW p \in Process, NEW c \in CallType, Fits(c),
         accounts' = accounts, pairs' = pairs, req' = [req EXCEPT ![p] = c]
  PROVE  IInv'
<1>1. TypeInv'
  BY DEF IInv, TypeInv
<1>2. CallInv'
  BY DEF IInv, TypeInv, CallInv, Fits, FitsIn
<1> QED
  BY <1>1, <1>2 DEF IInv, PairInv, OneAccountPerIdentity, Rows, Live

(* The call that ends. *)
LEMMA IdleFits ==
  ASSUME SessionAssumption
  PROVE  Idle \in CallType /\ Fits(Idle)
  BY DEF SessionAssumption, Idle, CallType, Fits, FitsIn, None

LEMMA Refused ==
  ASSUME IInv, NEW p \in Process, Refuse(p)
  PROVE  IInv'
  BY IdleFits, SessionAssumption, CallMoves DEF Refuse, End

(* A row of a token that is spent stays spent, whatever a step does to pairs. *)
Spending ==
  \A t \in Pair :
    /\ pairs[t].row # "none" => pairs'[t].row # "none"
    /\ pairs[t].row \in {"revoked", "deleted"} => pairs'[t].row \in {"revoked", "deleted"}

(* A step that writes pairs: a call it does not move still fits. *)
LEMMA PairsMove ==
  ASSUME IInv, accounts' = accounts, pairs' \in [Pair -> PairType], req' \in [Process -> CallType],
         \A q \in Process : req'[q] = req[q] \/ FitsIn(req'[q], pairs'),
         Spending, PairInv'
  PROVE  IInv'
<1>1. TypeInv'
  BY DEF IInv, TypeInv
<1>2. ASSUME NEW q \in Process, req'[q] = req[q] PROVE FitsIn(req'[q], pairs')
  <2>1. FitsIn(req[q], pairs) /\ req[q] \in CallType
    BY DEF IInv, CallInv, Fits, TypeInv
  <2>2. req[q].pair # None => req[q].pair \in Pair
    BY <2>1 DEF CallType
  <2> QED
    BY <1>2, <2>1, <2>2 DEF FitsIn, Spending
<1>3. CallInv'
  BY <1>2 DEF CallInv, Fits
<1> QED
  BY <1>1, <1>3 DEF IInv, OneAccountPerIdentity, Rows, Live

(* A step of p that writes the row of one account: it must leave the handle and
   the identity to whoever has them. *)
LEMMA AccountMoves ==
  ASSUME IInv, NEW p \in Process, NEW c \in CallType, Fits(c), NEW a \in Account, NEW r \in AccountType,
         pairs' = pairs, req' = [req EXCEPT ![p] = c], accounts' = [accounts EXCEPT ![a] = r],
         \A b \in Rows \ {a} :
           accounts[b].handle # r.handle /\ (r.state = "live" /\ Live(b) => accounts[b].identity # r.identity)
  PROVE  IInv'
<1>1. TypeInv'
  BY DEF IInv, TypeInv
<1>2. CallInv'
  BY DEF IInv, TypeInv, CallInv, Fits, FitsIn
<1>3. OneAccountPerIdentity'
  BY DEF IInv, TypeInv, OneAccountPerIdentity, Rows, Live
<1> QED
  BY <1>1, <1>2, <1>3 DEF IInv, PairInv

-----------------------------------------------------------------------------
(* The calls that start. *)
LEMMA StartKept ==
  ASSUME IInv, NEW p \in Process, Start(p)
  PROVE  IInv'
<1>1. CASE GoogleSignIn(p)
  <2>1. PICK i \in Identity :
          Begin(p, [Idle EXCEPT !.at = "findByFirebaseUid", !.op = "signIn", !.identity = i])
    BY <1>1 DEF GoogleSignIn
  <2> DEFINE c == [Idle EXCEPT !.at = "findByFirebaseUid", !.op = "signIn", !.identity = i]
  <2>2a. c \in CallType
    BY DEF Idle, CallType, None
  <2>2b. Fits(c)
    BY DEF Idle, CallType, Fits, FitsIn, None
  <2>2. c \in CallType /\ Fits(c)
    BY <2>2a, <2>2b
  <2> QED
    BY <2>1, <2>2, CallMoves DEF Begin
<1>2. CASE Refresh(p)
  <2>1. PICK t \in Pair :
          /\ pairs[t].fresh
          /\ Begin(p, [Idle EXCEPT !.at = "findActiveByHash", !.op = "refresh", !.pair = t])
    BY <1>2 DEF Refresh
  <2> DEFINE c == [Idle EXCEPT !.at = "findActiveByHash", !.op = "refresh", !.pair = t]
  <2>2a. c \in CallType
    BY DEF Idle, CallType, None
  <2>2b. Fits(c)
    BY <2>1 DEF Idle, CallType, Fits, FitsIn, None, IInv, PairInv
  <2>2. c \in CallType /\ Fits(c)
    BY <2>2a, <2>2b
  <2> QED
    BY <2>1, <2>2, CallMoves DEF Begin
<1>3. CASE Logout(p)
  <2>1. PICK t \in Pair :
          /\ pairs[t].row # "none"
          /\ Begin(p, [Idle EXCEPT !.at = "findUnique", !.op = "logout", !.pair = t])
    BY <1>3 DEF Logout
  <2> DEFINE c == [Idle EXCEPT !.at = "findUnique", !.op = "logout", !.pair = t]
  <2>2a. c \in CallType
    BY DEF Idle, CallType, None
  <2>2b. Fits(c)
    BY <2>1 DEF Idle, CallType, Fits, FitsIn, None
  <2>2. c \in CallType /\ Fits(c)
    BY <2>2a, <2>2b
  <2> QED
    BY <2>1, <2>2, CallMoves DEF Begin
<1>4. CASE UpdateProfile(p)
  <2>1. PICK t \in Pair, h \in Handle :
          /\ Authorised(t)
          /\ Begin(p, [Idle EXCEPT !.at = "findByHandle", !.op = "profile",
                                   !.account = pairs[t].owner, !.handle = h])
    BY <1>4 DEF UpdateProfile
  <2> DEFINE c == [Idle EXCEPT !.at = "findByHandle", !.op = "profile",
                               !.account = pairs[t].owner, !.handle = h]
  <2>2. pairs[t].owner \in Account
    BY <2>1 DEF IInv, PairInv, Authorised
  <2>3a. c \in CallType
    BY <2>2 DEF Idle, CallType, None
  <2>3b. Fits(c)
    BY <2>2 DEF Idle, CallType, Fits, FitsIn, None
  <2>3. c \in CallType /\ Fits(c)
    BY <2>3a, <2>3b
  <2> QED
    BY <2>1, <2>3, CallMoves DEF Begin
<1>5. CASE DeleteAccount(p)
  <2>1. PICK t \in Pair :
          /\ Authorised(t)
          /\ Begin(p, [Idle EXCEPT !.at = "findById", !.op = "delete", !.account = pairs[t].owner])
    BY <1>5 DEF DeleteAccount
  <2> DEFINE c == [Idle EXCEPT !.at = "findById", !.op = "delete", !.account = pairs[t].owner]
  <2>2. pairs[t].owner \in Account
    BY <2>1 DEF IInv, PairInv, Authorised
  <2>3a. c \in CallType
    BY <2>2 DEF Idle, CallType, None
  <2>3b. Fits(c)
    BY <2>2 DEF Idle, CallType, Fits, FitsIn, None
  <2>3. c \in CallType /\ Fits(c)
    BY <2>3a, <2>3b
  <2> QED
    BY <2>1, <2>3, CallMoves DEF Begin
<1> QED
  BY <1>1, <1>2, <1>3, <1>4, <1>5 DEF Start

(* Calls go on after a query that only reads. *)
LEMMA GoesOn ==
  ASSUME IInv, NEW p \in Process, NEW next, Goto(p, next),
         [req[p] EXCEPT !.at = next] \in CallType, Fits([req[p] EXCEPT !.at = next])
  PROVE  IInv'
  BY CallMoves DEF Goto, IInv, TypeInv, CallType

LEMMA ReadKept ==
  ASSUME IInv, NEW p \in Process,
         \/ FindByFirebaseUid(p) \/ GenerateUniqueHandle(p) \/ FindActiveByHash(p)
         \/ FindById(p) \/ FindUnique(p) \/ FindByHandle(p)
  PROVE  IInv'
<1>0. req[p] \in CallType /\ Fits(req[p]) /\ req \in [Process -> CallType]
  BY DEF IInv, TypeInv, CallInv
<1>1. CASE FindByFirebaseUid(p)
  <2>1. CASE Goto(p, "findByHandle")
    <3>1. Fits([req[p] EXCEPT !.at = "findByHandle"])
      BY <1>0, <1>1 DEF Fits, FitsIn, FindByFirebaseUid, CallType
    <3> QED
      BY <1>0, <2>1, <3>1, GoesOn DEF CallType
  <2>2. ASSUME NEW a \in Account, req' = [req EXCEPT ![p] = Issuing(a, None)],
               UNCHANGED <<accounts, pairs>>
        PROVE  IInv'
    <3>1a. Issuing(a, None) \in CallType
      BY DEF Issuing, Idle, CallType, None
    <3>1b. Fits(Issuing(a, None))
      BY DEF Issuing, Idle, CallType, Fits, FitsIn, None
    <3>1. Issuing(a, None) \in CallType /\ Fits(Issuing(a, None))
      BY <3>1a, <3>1b
    <3> QED
      BY <2>2, <3>1, CallMoves
  <2> QED
    BY <1>1, <2>1, <2>2 DEF FindByFirebaseUid
<1>2. CASE GenerateUniqueHandle(p)
  <2> DEFINE names == Candidates[req[p].identity]
             try == req[p].try
             c == IF Taken(names[try]) THEN [req[p] EXCEPT !.try = try + 1]
                  ELSE [req[p] EXCEPT !.at = "createUser", !.handle = names[try]]
  <2>1. CASE Refuse(p)
    BY <2>1, Refused
  <2>2. CASE ~Refuse(p)
    <3>1. try \in Nat /\ try <= Len(names) /\ req[p].at = "findByHandle" /\ req[p].op = "signIn"
      BY <1>0, <1>2, <2>2 DEF GenerateUniqueHandle, CallType
    <3>2. req[p].identity \in Identity
      BY <1>0, <3>1 DEF Fits, FitsIn
    <3>2a. names \in Seq(Handle)
      BY <3>2, SessionAssumption DEF SessionAssumption
    <3>2b. try # 0
      BY <1>0 DEF Fits, FitsIn
    <3>3. names[try] \in Handle
      BY <3>1, <3>2a, <3>2b
    <3>3a. [req[p] EXCEPT !.try = try + 1] \in CallType
      <4>1. try + 1 \in Nat
        BY <3>1
      <4> HIDE DEF try
      <4> QED
        BY <1>0, <4>1 DEF CallType
    <3>3b. [req[p] EXCEPT !.at = "createUser", !.handle = names[try]] \in CallType
      <4> HIDE DEF try, names
      <4> QED
        BY <1>0, <3>3 DEF CallType
    <3>4a. c \in CallType
      BY <3>3a, <3>3b
    <3>4b. Fits(c)
      BY <1>0, <3>1, <3>2, <3>3 DEF CallType, Fits, FitsIn
    <3>4. c \in CallType /\ Fits(c)
      BY <3>4a, <3>4b
    <3>5. req' = [req EXCEPT ![p] = c] /\ UNCHANGED <<accounts, pairs>>
      BY <1>0, <1>2, <2>2 DEF GenerateUniqueHandle
    <3> QED
      BY <3>4, <3>5, CallMoves
  <2> QED
    BY <2>1, <2>2
<1>3. CASE FindActiveByHash(p)
  <2>1. Fits([req[p] EXCEPT !.at = "findById"])
    BY <1>0, <1>3 DEF Fits, FitsIn, FindActiveByHash, CallType
  <2> QED
    BY <1>0, <1>3, <2>1, GoesOn, Refused DEF FindActiveByHash, CallType
<1>4. CASE FindById(p)
  <2> DEFINE c == [req[p] EXCEPT !.at = IF req[p].op = "refresh" THEN "revokeById" ELSE "revokeAll",
                                 !.account = Subject(p)]
  <2>1. CASE Refuse(p)
    BY <2>1, Refused
  <2>2. CASE ~Refuse(p)
    <3>1. req' = [req EXCEPT ![p] = c] /\ UNCHANGED <<accounts, pairs>> /\ Live(Subject(p))
      BY <1>0, <1>4, <2>2 DEF FindById
    <3>2. req[p].at = "findById"
      BY <1>4 DEF FindById
    <3>3. req[p].op = "refresh" => req[p].pair \in Pair
      BY <1>0, <3>2 DEF Fits, FitsIn
    <3>4. Subject(p) \in Account \union {None}
      BY <1>0, <3>3 DEF Subject, IInv, TypeInv, PairType, CallType
    <3>5. Subject(p) \in Account
      BY <1>0, <3>2, <3>3 DEF Fits, FitsIn, Subject, IInv, PairInv, None, Pair
    <3>6. c \in CallType
      BY <1>0, <3>4 DEF CallType
    <3>7. Fits(c)
      BY <1>0, <3>2, <3>3, <3>5 DEF Fits, FitsIn, CallType
    <3> QED
      BY <3>1, <3>6, <3>7, CallMoves
  <2> QED
    BY <2>1, <2>2
<1>5. CASE FindUnique(p)
  <2>1. Fits([req[p] EXCEPT !.at = "revokeByHash"])
    BY <1>0, <1>5 DEF Fits, FitsIn, FindUnique, CallType
  <2> QED
    BY <1>0, <1>5, <2>1, GoesOn, Refused DEF FindUnique, CallType
<1>6. CASE FindByHandle(p)
  <2>1. Fits([req[p] EXCEPT !.at = "update"])
    BY <1>0, <1>6 DEF Fits, FitsIn, FindByHandle, CallType
  <2> QED
    BY <1>0, <1>6, <2>1, GoesOn, Refused DEF FindByHandle, CallType
<1> QED
  BY <1>1, <1>2, <1>3, <1>4, <1>5, <1>6

(* Writes to users. *)
LEMMA AccountKept ==
  ASSUME IInv, NEW p \in Process, CreateUser(p) \/ Update(p) \/ SoftDelete(p)
  PROVE  IInv'
<1>0. /\ req[p] \in CallType /\ Fits(req[p]) /\ req \in [Process -> CallType]
      /\ accounts \in [Account -> AccountType]
  BY DEF IInv, TypeInv, CallInv
<1>1. CASE CreateUser(p)
  <2>1. CASE Refuse(p)
    BY <2>1, Refused
  <2>2. CASE ~Refuse(p)
    <3> DEFINE r == [state |-> "live", identity |-> req[p].identity, handle |-> req[p].handle]
    <3>1. PICK a \in Account \ Rows :
            /\ accounts' = [accounts EXCEPT ![a] = r]
            /\ req' = [req EXCEPT ![p] = Issuing(a, None)]
      BY <1>1, <2>2 DEF CreateUser
    <3>2. /\ pairs' = pairs
          /\ \A b \in Rows : accounts[b].identity # r.identity /\ accounts[b].handle # r.handle
      BY <1>1, <2>2 DEF CreateUser
    <3>3. req[p].identity \in Identity /\ req[p].handle \in Handle
      BY <1>0, <1>1 DEF CreateUser, Fits, FitsIn
    <3>4. r \in AccountType
      BY <3>3 DEF AccountType
    <3>5. Issuing(a, None) \in CallType
      BY DEF Issuing, Idle, CallType, None
    <3>6. Fits(Issuing(a, None))
      BY DEF Issuing, Idle, Fits, FitsIn, None
    <3> HIDE DEF r
    <3> QED
      BY <3>1, <3>2, <3>4, <3>5, <3>6, AccountMoves
  <2> QED
    BY <2>1, <2>2
<1>2. CASE Update(p)
  <2> DEFINE a == req[p].account
             r == [accounts[a] EXCEPT !.handle = req[p].handle]
  <2>1. req[p].account \in Account /\ req[p].handle \in Handle
    BY <1>0, <1>2 DEF Update, Fits, FitsIn
  <2>2. r \in AccountType
    BY <1>0, <2>1 DEF AccountType
  <2>3. accounts' = [accounts EXCEPT ![a] = r] /\ pairs' = pairs /\ req' = [req EXCEPT ![p] = Idle]
    BY <1>0, <1>2 DEF Update, End
  <2>4. ASSUME NEW b \in Rows \ {a}
        PROVE  accounts[b].handle # r.handle /\ (r.state = "live" /\ Live(b) => accounts[b].identity # r.identity)
    <3>1. accounts[b].handle # req[p].handle /\ r.handle = req[p].handle
      BY <1>0, <1>2, <2>1 DEF Update, AccountType
    <3>2. r.state = accounts[a].state /\ r.identity = accounts[a].identity
      BY <1>0, <2>1 DEF AccountType
    <3> QED
      BY <2>1, <3>1, <3>2 DEF IInv, OneAccountPerIdentity, Rows, Live
  <2> HIDE DEF a, r
  <2> QED
    BY <2>1, <2>2, <2>3, <2>4, IdleFits, SessionAssumption, AccountMoves DEF a
<1>3. CASE SoftDelete(p)
  <2> DEFINE a == req[p].account
             r == [state |-> "gone", identity |-> NoIdentity, handle |-> AnonHandle[a]]
  <2>1. req[p].account \in Account
    BY <1>0, <1>3 DEF SoftDelete, Fits, FitsIn
  <2>2. r \in AccountType
    BY <2>1, SessionAssumption DEF SessionAssumption, AccountType, Account
  <2>3. accounts' = [accounts EXCEPT ![a] = r] /\ pairs' = pairs /\ req' = [req EXCEPT ![p] = Idle]
    BY <1>3 DEF SoftDelete, End
  <2>4. r.state # "live" /\ \A b \in Rows \ {a} : accounts[b].handle # r.handle
    BY <1>3 DEF SoftDelete
  <2> HIDE DEF a, r
  <2> QED
    BY <2>1, <2>2, <2>3, <2>4, IdleFits, SessionAssumption, AccountMoves DEF a
<1> QED
  BY <1>1, <1>2, <1>3

(* Rows of refresh_tokens that are revoked or cleaned up. *)
LEMMA RowsSpent ==
  ASSUME IInv, NEW T \in SUBSET Pair, \A t \in T : pairs[t].row # "none",
         NEW row \in {"revoked", "deleted"},
         pairs' = [t \in Pair |-> IF t \in T THEN [pairs[t] EXCEPT !.row = row] ELSE pairs[t]]
  PROVE  pairs' \in [Pair -> PairType] /\ Spending /\ PairInv'
<1>0. pairs \in [Pair -> PairType] /\ PairInv
  BY DEF IInv, TypeInv
<1>1. \A t \in Pair :
        /\ pairs'[t] \in PairType
        /\ pairs'[t].owner = pairs[t].owner /\ pairs'[t].parent = pairs[t].parent
        /\ pairs'[t].access = pairs[t].access /\ pairs'[t].fresh = pairs[t].fresh
        /\ pairs'[t].row = IF t \in T THEN row ELSE pairs[t].row
  BY <1>0 DEF PairType
<1>2. pairs' \in [Pair -> PairType]
  BY <1>1
<1>3. Spending
  BY <1>1 DEF Spending
<1>4. \A t \in Pair : pairs[t].parent \in Pair \union {None}
  BY <1>0 DEF PairType
<1>5. PairInv'
  BY <1>0, <1>1, <1>4 DEF PairInv
<1> QED
  BY <1>2, <1>3, <1>5

(* A call that has spent rows and ends, or goes on to create a pair. *)
LEMMA SpentKept ==
  ASSUME IInv, NEW p \in Process, NEW c \in CallType, FitsIn(c, pairs'),
         NEW T \in SUBSET Pair, \A t \in T : pairs[t].row # "none",
         pairs' = [t \in Pair |-> IF t \in T THEN [pairs[t] EXCEPT !.row = "revoked"] ELSE pairs[t]],
         accounts' = accounts, req' = [req EXCEPT ![p] = c]
  PROVE  IInv'
<1>1. pairs' \in [Pair -> PairType] /\ Spending /\ PairInv'
  BY RowsSpent
<1>2. req' \in [Process -> CallType] /\ \A q \in Process : req'[q] = req[q] \/ FitsIn(req'[q], pairs')
  BY DEF IInv, TypeInv
<1> QED
  BY <1>1, <1>2, PairsMove

(* Writes to refresh_tokens. *)
LEMMA PairKept ==
  ASSUME IInv, NEW p \in Process,
         CreateToken(p) \/ RevokeById(p) \/ RevokeByHash(p) \/ RevokeAllForUser(p)
  PROVE  IInv'
<1>0. /\ req[p] \in CallType /\ Fits(req[p]) /\ req \in [Process -> CallType]
      /\ pairs \in [Pair -> PairType] /\ PairInv
  BY DEF IInv, TypeInv, CallInv
<1>1. CASE CreateToken(p)
  <2> DEFINE r == [owner |-> req[p].account, parent |-> req[p].pair, row |-> "active",
                   access |-> TRUE, fresh |-> TRUE]
  <2>1. PICK n \in Pair : pairs[n].row = "none" /\ pairs' = [pairs EXCEPT ![n] = r]
    BY <1>1 DEF CreateToken
  <2>2. accounts' = accounts /\ req' = [req EXCEPT ![p] = Idle]
    BY <1>1 DEF CreateToken, End
  <2>3. req[p].account \in Account /\ req[p].pair \in Pair \union {None}
    BY <1>0, <1>1 DEF CreateToken, Fits, FitsIn, CallType
  <2>4. pairs' \in [Pair -> PairType]
    BY <1>0, <2>1, <2>3 DEF PairType
  <2>5. Spending
    BY <1>0, <2>1 DEF Spending
  <2>6. r.parent # None => pairs[r.parent].row \in {"revoked", "deleted"}
    BY <1>0, <1>1 DEF CreateToken, Fits, FitsIn
  <2>7. PairInv'
    <3> SUFFICES ASSUME NEW t \in Pair
                 PROVE  /\ pairs'[t].row # "none" => pairs'[t].owner \in Account
                        /\ pairs'[t].access \/ pairs'[t].fresh => pairs'[t].row # "none"
                        /\ pairs'[t].parent # None => pairs'[pairs'[t].parent].row \in {"revoked", "deleted"}
      BY DEF PairInv
    <3>1. CASE t = n
      BY <1>0, <2>1, <2>3, <2>5, <2>6, <3>1 DEF Spending
    <3>2. CASE t # n
      <4>1. pairs'[t] = pairs[t] /\ pairs[t].parent \in Pair \union {None}
        BY <1>0, <2>1, <3>2 DEF PairType
      <4> QED
        BY <1>0, <2>5, <4>1 DEF PairInv, Spending
    <3> QED
      BY <3>1, <3>2
  <2>8. req' \in [Process -> CallType] /\ \A q \in Process : req'[q] = req[q] \/ req'[q] = Idle
    BY <1>0, <2>2, IdleFits, SessionAssumption
  <2>9. FitsIn(Idle, pairs')
    BY DEF FitsIn, Idle, None
  <2> QED
    BY <2>2, <2>4, <2>5, <2>7, <2>8, <2>9, PairsMove
<1>2. CASE RevokeById(p)
  <2>1. CASE Refuse(p)
    BY <2>1, Refused
  <2>2. CASE ~Refuse(p)
    <3> DEFINE t == req[p].pair
               c == [req[p] EXCEPT !.at = "issue"]
    <3>1. /\ req[p].at = "revokeById" /\ accounts' = accounts
          /\ pairs' = [pairs EXCEPT ![t].row = "revoked"]
          /\ req' = [req EXCEPT ![p] = c]
      BY <1>0, <1>2, <2>2 DEF RevokeById
    <3>2. t \in Pair /\ req[p].op = "refresh" /\ pairs[t].row # "none"
      BY <1>0, <3>1 DEF Fits, FitsIn, None, Pair
    <3>3. pairs' = [s \in Pair |-> IF s \in {t} THEN [pairs[s] EXCEPT !.row = "revoked"] ELSE pairs[s]]
      BY <1>0, <3>1, <3>2
    <3>4. c \in CallType
      BY <1>0 DEF CallType
    <3>5. pairs'[t].row = "revoked"
      BY <1>0, <3>2, <3>3 DEF PairType
    <3>5a. req[p].account \in Account
      BY <1>0, <3>1 DEF Fits, FitsIn
    <3>6. FitsIn(c, pairs')
      BY <1>0, <3>1, <3>2, <3>5, <3>5a DEF Fits, FitsIn, CallType
    <3> HIDE DEF t, c
    <3> QED
      BY <3>1, <3>2, <3>3, <3>4, <3>6, SpentKept
  <2> QED
    BY <2>1, <2>2
<1>3. CASE RevokeByHash(p)
  <2>1. CASE Refuse(p)
    BY <2>1, Refused
  <2>2. CASE ~Refuse(p)
    <3> DEFINE t == req[p].pair
    <3>1. /\ req[p].at = "revokeByHash" /\ accounts' = accounts
          /\ pairs' = [pairs EXCEPT ![t].row = "revoked"]
          /\ req' = [req EXCEPT ![p] = Idle]
      BY <1>0, <1>3, <2>2 DEF RevokeByHash, End
    <3>2. t \in Pair /\ pairs[t].row # "none"
      BY <1>0, <3>1 DEF Fits, FitsIn, None, Pair
    <3>3. pairs' = [s \in Pair |-> IF s \in {t} THEN [pairs[s] EXCEPT !.row = "revoked"] ELSE pairs[s]]
      BY <1>0, <3>1, <3>2
    <3>4. FitsIn(Idle, pairs')
      BY DEF FitsIn, Idle, None
    <3> HIDE DEF t
    <3> QED
      BY <3>1, <3>2, <3>3, <3>4, SpentKept, IdleFits, SessionAssumption
  <2> QED
    BY <2>1, <2>2
<1>4. CASE RevokeAllForUser(p)
  <2> DEFINE T == {t \in Pair : pairs[t].owner = req[p].account /\ pairs[t].row = "active"}
             c == [req[p] EXCEPT !.at = "softDelete"]
  <2>1. pairs' = [t \in Pair |-> IF t \in T THEN [pairs[t] EXCEPT !.row = "revoked"] ELSE pairs[t]]
    BY <1>4 DEF RevokeAllForUser
  <2>2. accounts' = accounts /\ req' = [req EXCEPT ![p] = c] /\ req[p].at = "revokeAll"
    BY <1>0, <1>4 DEF RevokeAllForUser
  <2>3. c \in CallType
    BY <1>0 DEF CallType
  <2>4. T \in SUBSET Pair /\ \A t \in T : pairs[t].row # "none"
    OBVIOUS
  <2>5. Spending
    <3> HIDE DEF T
    <3> QED
      BY <2>1, <2>4, RowsSpent
  <2>6. FitsIn(c, pairs')
    <3>1. req[p].pair \in Pair \union {None}
      BY <1>0 DEF CallType
    <3> QED
      BY <1>0, <2>2, <2>5, <3>1 DEF Fits, FitsIn, CallType, Spending
  <2> HIDE DEF T, c
  <2> QED
    BY <2>1, <2>2, <2>3, <2>4, <2>6, SpentKept
<1> QED
  BY <1>1, <1>2, <1>3, <1>4

(* The passing of time, and the clean-up job. *)
LEMMA AgeKept ==
  ASSUME IInv, NEW t \in Pair, ExpireAccess(t) \/ ExpireRefresh(t) \/ CleanupExpiredTokens(t)
  PROVE  IInv'
<1>0. pairs \in [Pair -> PairType] /\ PairInv /\ req \in [Process -> CallType]
  BY DEF IInv, TypeInv
<1>1. accounts' = accounts /\ req' = req
  BY DEF ExpireAccess, ExpireRefresh, CleanupExpiredTokens
<1>2. pairs' \in [Pair -> PairType] /\ Spending /\ PairInv'
  <2>1. CASE CleanupExpiredTokens(t)
    <3>1. pairs' = [s \in Pair |-> IF s \in {t} THEN [pairs[s] EXCEPT !.row = "deleted"] ELSE pairs[s]]
      BY <1>0, <2>1 DEF CleanupExpiredTokens
    <3>2. \A s \in {t} : pairs[s].row # "none"
      BY <2>1 DEF CleanupExpiredTokens
    <3> QED
      BY <3>1, <3>2, RowsSpent
  <2>2. CASE ExpireAccess(t) \/ ExpireRefresh(t)
    <3>1. pairs' \in [Pair -> PairType]
      <4>1. [pairs[t] EXCEPT !.access = FALSE] \in PairType /\ [pairs[t] EXCEPT !.fresh = FALSE] \in PairType
        BY <1>0 DEF PairType
      <4> QED
        BY <1>0, <2>2, <4>1 DEF ExpireAccess, ExpireRefresh
    <3>2. \A s \in Pair :
            /\ pairs'[s].row = pairs[s].row /\ pairs'[s].parent = pairs[s].parent
            /\ pairs'[s].owner = pairs[s].owner
            /\ pairs'[s].access \/ pairs'[s].fresh => pairs[s].access \/ pairs[s].fresh
      BY <1>0, <2>2 DEF ExpireAccess, ExpireRefresh, PairType
    <3>3. \A s \in Pair : pairs[s].parent \in Pair \union {None}
      BY <1>0 DEF PairType
    <3> QED
      BY <1>0, <3>1, <3>2, <3>3 DEF Spending, PairInv
  <2> QED
    BY <2>1, <2>2
<1> QED
  BY <1>0, <1>1, <1>2, PairsMove

LEMMA Initially == Init => IInv
<1> SUFFICES ASSUME Init PROVE IInv
  OBVIOUS
<1>1. accounts = [a \in Account |-> NoAccount] /\ pairs = [t \in Pair |-> NoPair] /\ req = [p \in Process |-> Idle]
  BY DEF Init
<1>2. NoAccount \in AccountType /\ NoAccount.state = "none"
  BY DEF NoAccount, AccountType
<1>3. NoPair \in PairType /\ NoPair.row = "none" /\ NoPair.parent = None /\ ~NoPair.access /\ ~NoPair.fresh
  BY DEF NoPair, PairType
<1>4. Idle \in CallType /\ Fits(Idle)
  BY IdleFits, SessionAssumption
<1>5. TypeInv
  BY <1>1, <1>2, <1>3, <1>4 DEF TypeInv
<1>6. CallInv
  BY <1>1, <1>4 DEF CallInv
<1>7. PairInv
  BY <1>1, <1>3 DEF PairInv
<1>8. OneAccountPerIdentity
  BY <1>1, <1>2 DEF OneAccountPerIdentity, Rows
<1> QED
  BY <1>5, <1>6, <1>7, <1>8 DEF IInv

LEMMA StepKept ==
  ASSUME IInv, [Next]_vars
  PROVE  IInv'
<1>1. CASE UNCHANGED vars
  BY <1>1 DEF vars, IInv, TypeInv, CallInv, Fits, FitsIn, PairInv, OneAccountPerIdentity, Rows, Live
<1>2. ASSUME NEW p \in Process, Start(p) \/ Step(p) \/ Abort(p) PROVE IInv'
  BY <1>2, StartKept, ReadKept, AccountKept, PairKept, Refused DEF Step, Abort
<1>3. ASSUME NEW t \in Pair, ExpireAccess(t) \/ ExpireRefresh(t) \/ CleanupExpiredTokens(t) PROVE IInv'
  BY <1>3, AgeKept
<1> QED
  BY <1>1, <1>2, <1>3 DEF Next

(* The accounts, the pairs and what a call relies on between its queries. *)
THEOREM SessionInvariant == Spec => []IInv
<1>1. IInv /\ [Next]_vars => IInv'
  BY StepKept
<1> QED
  BY Initially, <1>1, PTL DEF Spec

(* One live account per identity, one row per handle: findOrCreateByFirebaseUid
   looks and then inserts, updateProfile looks and then updates, deleteAccount
   writes a handle that anybody may have picked. *)
THEOREM IdentitiesAreUnique == Spec => []OneAccountPerIdentity
<1>1. IInv => OneAccountPerIdentity
  BY DEF IInv
<1> QED
  BY <1>1, SessionInvariant, PTL

(* A refresh token that has been exchanged is accepted no more: refresh revokes
   before it creates. *)
THEOREM ExchangedIsRevoked == Spec => []RotatedOut
<1>1. IInv => RotatedOut
  BY DEF IInv, PairInv, RotatedOut
<1> QED
  BY <1>1, SessionInvariant, PTL

-----------------------------------------------------------------------------
(* A step that creates no pair out of t leaves no more ways to get one. *)
LEMMA NoHeir ==
  ASSUME NEW t \in Pair, IsFiniteSet(Heirs(t)), IsFiniteSet(Refreshing(t)),
         Heirs(t)' \subseteq Heirs(t), Refreshing(t)' \subseteq Refreshing(t)
  PROVE  Cardinality(Heirs(t)') + Cardinality(Refreshing(t)')
           <= Cardinality(Heirs(t)) + Cardinality(Refreshing(t))
<1>1. /\ Cardinality(Heirs(t)') <= Cardinality(Heirs(t))
      /\ Cardinality(Refreshing(t)') <= Cardinality(Refreshing(t))
  BY FS_Subset
<1>2. IsFiniteSet(Heirs(t)') /\ IsFiniteSet(Refreshing(t)')
  BY FS_Subset
<1> QED
  BY <1>1, <1>2, FS_CardinalityType

(* Once t is revoked, the call of p refreshes t only if it did before. *)
LEMMA RefreshEntered ==
  ASSUME IInv, NEW t \in Pair, pairs[t].row \in {"revoked", "deleted"}, NEW p \in Process,
         Start(p) \/ Step(p) \/ Abort(p)
  PROVE  /\ p \in Refreshing(t)' => p \in Refreshing(t) /\ ~CreateToken(p)
         /\ \A q \in Process \ {p} : req'[q] = req[q]
<1>0. /\ req \in [Process -> CallType] /\ req[p] \in CallType /\ Fits(req[p])
      /\ pairs \in [Pair -> PairType]
  BY DEF IInv, TypeInv, CallInv
<1>1. p \in Refreshing(t)' <=>
        req'[p].op = "refresh" /\ req'[p].pair = t /\ req'[p].at \in {"findById", "revokeById", "issue"}
  BY DEF Refreshing
<1>2. p \in Refreshing(t) <=>
        req[p].op = "refresh" /\ req[p].pair = t /\ req[p].at \in {"findById", "revokeById", "issue"}
  BY DEF Refreshing
<1>3. CASE Start(p)
  <2> DEFINE Begun == /\ req'[p].at = "findActiveByHash" \/ req'[p].op # "refresh"
                      /\ \A q \in Process \ {p} : req'[q] = req[q]
  <2>1. ASSUME GoogleSignIn(p) PROVE Begun
    BY <1>0, <2>1 DEF GoogleSignIn, Begin, Idle
  <2>2. ASSUME Refresh(p) PROVE Begun
    BY <1>0, <2>2 DEF Refresh, Begin, Idle
  <2>3. ASSUME Logout(p) PROVE Begun
    BY <1>0, <2>3 DEF Logout, Begin, Idle
  <2>4. ASSUME UpdateProfile(p) PROVE Begun
    BY <1>0, <2>4 DEF UpdateProfile, Begin, Idle
  <2>5. ASSUME DeleteAccount(p) PROVE Begun
    BY <1>0, <2>5 DEF DeleteAccount, Begin, Idle
  <2>6. Begun
    BY <1>3, <2>1, <2>2, <2>3, <2>4, <2>5 DEF Start
  <2> QED
    BY <1>1, <2>6
<1>4. CASE Refuse(p)
  BY <1>0, <1>1, <1>4 DEF Refuse, End, Idle
<1>5. CASE FindByFirebaseUid(p) \/ GenerateUniqueHandle(p) \/ CreateUser(p)
  <2>0. ASSUME NEW a \in Account, req' = [req EXCEPT ![p] = Issuing(a, None)]
        PROVE  req'[p].op # "refresh" /\ \A q \in Process \ {p} : req'[q] = req[q]
    BY <1>0, <2>0 DEF Issuing, Idle
  <2>1. CASE FindByFirebaseUid(p)
    BY <1>0, <1>1, <2>0, <2>1 DEF FindByFirebaseUid, Goto, CallType
  <2>2. CASE GenerateUniqueHandle(p)
    <3>1. CASE ~Refuse(p)
      BY <1>0, <1>1, <2>2, <3>1 DEF GenerateUniqueHandle, CallType
    <3> QED
      BY <1>4, <3>1
  <2>3. CASE CreateUser(p)
    BY <1>1, <1>4, <2>0, <2>3 DEF CreateUser
  <2> QED
    BY <1>5, <2>1, <2>2, <2>3
<1>6. CASE CreateToken(p) \/ RevokeByHash(p) \/ Update(p) \/ SoftDelete(p)
  <2>1. req' = [req EXCEPT ![p] = Idle]
    BY <1>6 DEF CreateToken, RevokeByHash, Update, SoftDelete, Refuse, End
  <2> QED
    BY <1>0, <1>1, <2>1 DEF Idle
<1>7. CASE FindActiveByHash(p)
  BY <1>0, <1>1, <1>4, <1>7 DEF FindActiveByHash, Goto, CallType
<1>8. CASE FindById(p) \/ RevokeById(p)
  <2>1. CASE FindById(p)
    BY <1>0, <1>1, <1>2, <1>4, <2>1 DEF FindById, CreateToken, CallType
  <2>2. CASE RevokeById(p)
    BY <1>0, <1>1, <1>2, <1>4, <2>2 DEF RevokeById, CreateToken, CallType
  <2> QED
    BY <1>8, <2>1, <2>2
<1>9. CASE FindUnique(p) \/ FindByHandle(p) \/ RevokeAllForUser(p)
  <2>1. CASE FindUnique(p)
    BY <1>0, <1>1, <1>4, <2>1 DEF FindUnique, Goto, CallType
  <2>2. CASE FindByHandle(p)
    BY <1>0, <1>1, <1>4, <2>2 DEF FindByHandle, Goto, CallType
  <2>3. CASE RevokeAllForUser(p)
    BY <1>0, <1>1, <2>3 DEF RevokeAllForUser, CallType
  <2> QED
    BY <1>9, <2>1, <2>2, <2>3
<1> QED
  BY <1>3, <1>4, <1>5, <1>6, <1>7, <1>8, <1>9 DEF Step, Abort

(* Only the creation of a pair gives t an heir. *)
LEMMA HeirsKept ==
  ASSUME IInv, NEW t \in Pair, NEW p \in Process, Start(p) \/ Step(p) \/ Abort(p), ~CreateToken(p)
  PROVE  Heirs(t)' = Heirs(t)
<1>0. pairs \in [Pair -> PairType]
  BY DEF IInv, TypeInv
<1>1. \A n \in Pair : pairs'[n].parent = pairs[n].parent
  <2>1. CASE RevokeById(p) \/ RevokeByHash(p) \/ RevokeAllForUser(p)
    BY <1>0, <2>1 DEF RevokeById, RevokeByHash, RevokeAllForUser, Refuse, PairType
  <2>2. CASE ~(RevokeById(p) \/ RevokeByHash(p) \/ RevokeAllForUser(p))
    <3>1. pairs' = pairs
      BY <2>2 DEF Start, Step, Abort, GoogleSignIn, Refresh, Logout, UpdateProfile, DeleteAccount, Begin,
                  FindByFirebaseUid, GenerateUniqueHandle, CreateUser, FindActiveByHash, FindById,
                  FindUnique, FindByHandle, Update, SoftDelete, Goto, Refuse
    <3> QED
      BY <3>1
  <2> QED
    BY <2>1, <2>2
<1> QED
  BY <1>1 DEF Heirs

LEMMA DriesStep ==
  ASSUME IInv, [Next]_vars, NEW t \in Pair, pairs[t].row \in {"revoked", "deleted"}
  PROVE  Cardinality(Heirs(t)') + Cardinality(Refreshing(t)')
           <= Cardinality(Heirs(t)) + Cardinality(Refreshing(t))
<1>0. IsFiniteSet(Heirs(t)) /\ IsFiniteSet(Refreshing(t))
  <2>1. IsFiniteSet(Pair)
    BY FS_Interval, SessionAssumption DEF SessionAssumption, Pair
  <2> QED
    BY <2>1, FS_Subset, SessionAssumption DEF SessionAssumption, Heirs, Refreshing
<1>1. CASE UNCHANGED vars
  BY <1>0, <1>1, NoHeir DEF vars, Heirs, Refreshing
<1>2. ASSUME NEW p \in Process, Start(p) \/ Step(p) \/ Abort(p), ~CreateToken(p)
      PROVE  Heirs(t)' \subseteq Heirs(t) /\ Refreshing(t)' \subseteq Refreshing(t)
  <2>1. Heirs(t)' = Heirs(t)
    BY <1>2, HeirsKept
  <2>2. ASSUME NEW q \in Refreshing(t)' PROVE q \in Refreshing(t)
    <3>1. q \in Process
      BY <2>2 DEF Refreshing
    <3> QED
      BY <1>2, <2>2, <3>1, RefreshEntered DEF Refreshing
  <2> QED
    BY <2>1, <2>2
<1>3. ASSUME NEW p \in Process, CreateToken(p)
      PROVE  Cardinality(Heirs(t)') + Cardinality(Refreshing(t)')
               <= Cardinality(Heirs(t)) + Cardinality(Refreshing(t))
  <2>1. PICK n \in Pair :
          pairs' = [pairs EXCEPT ![n] =
            [owner |-> req[p].account, parent |-> req[p].pair, row |-> "active", access |-> TRUE, fresh |-> TRUE]]
    BY <1>3 DEF CreateToken
  <2>2. ASSUME NEW q \in Refreshing(t)' PROVE q \in Refreshing(t) \ {p}
    <3>1. q \in Process
      BY <2>2 DEF Refreshing
    <3> QED
      BY <1>3, <2>2, <3>1, RefreshEntered DEF Refreshing, Step
  <2>3. CASE req[p].pair # t
    <3>1. Heirs(t)' \subseteq Heirs(t)
      BY <2>1, <2>3 DEF Heirs, IInv, TypeInv
    <3> QED
      BY <1>0, <2>2, <3>1, NoHeir
  <2>4. CASE req[p].pair = t
    <3>1. p \in Refreshing(t)
      BY <1>3, <2>4 DEF Refreshing, CreateToken, IInv, CallInv, Fits, FitsIn, None, Pair
    <3>2. Heirs(t)' \subseteq Heirs(t) \union {n}
      BY <2>1 DEF Heirs, IInv, TypeInv
    <3>3. Cardinality(Heirs(t)') <= Cardinality(Heirs(t)) + 1 /\ Cardinality(Heirs(t)') \in Nat
      <4>1. /\ IsFiniteSet(Heirs(t) \union {n})
            /\ Cardinality(Heirs(t) \union {n}) <= Cardinality(Heirs(t)) + 1
        <5>1. IsFiniteSet(Heirs(t) \union {n})
          BY <1>0, FS_AddElement
        <5>2. n \in Heirs(t) => Heirs(t) \union {n} = Heirs(t)
          OBVIOUS
        <5> QED
          BY <1>0, <5>1, <5>2, FS_AddElement, FS_CardinalityType
      <4>2. IsFiniteSet(Heirs(t)') /\ Cardinality(Heirs(t)') <= Cardinality(Heirs(t) \union {n})
        BY <3>2, <4>1, FS_Subset
      <4> QED
        BY <1>0, <4>1, <4>2, FS_CardinalityType
    <3>4. Cardinality(Refreshing(t)') <= Cardinality(Refreshing(t)) - 1 /\ Cardinality(Refreshing(t)') \in Nat
      <4>1. /\ IsFiniteSet(Refreshing(t) \ {p})
            /\ Cardinality(Refreshing(t) \ {p}) = Cardinality(Refreshing(t)) - 1
        BY <1>0, <3>1, FS_RemoveElement
      <4>2. /\ IsFiniteSet(Refreshing(t)')
            /\ Cardinality(Refreshing(t)') <= Cardinality(Refreshing(t) \ {p})
        BY <2>2, <4>1, FS_Subset
      <4> QED
        BY <4>1, <4>2, FS_CardinalityType
    <3> QED
      BY <1>0, <3>3, <3>4, FS_CardinalityType
  <2> QED
    BY <2>3, <2>4
<1>4. ASSUME NEW s \in Pair, ExpireAccess(s) \/ ExpireRefresh(s) \/ CleanupExpiredTokens(s)
      PROVE  Heirs(t)' \subseteq Heirs(t) /\ Refreshing(t)' \subseteq Refreshing(t)
  BY <1>4 DEF ExpireAccess, ExpireRefresh, CleanupExpiredTokens, Heirs, Refreshing, IInv, TypeInv, PairType
<1> QED
  BY <1>0, <1>1, <1>2, <1>3, <1>4, NoHeir DEF Next

(* Each refresh that found the token active before it was revoked may create
   one pair, and nobody else: rotation is not a transaction, and this is what
   is left of "single-use". *)
THEOREM RevocationDries == Spec => RevokedDries
<1>1. IInv /\ [Next]_vars =>
        \A t \in Pair : pairs[t].row \in {"revoked", "deleted"} =>
          Cardinality(Heirs(t)') + Cardinality(Refreshing(t)')
            <= Cardinality(Heirs(t)) + Cardinality(Refreshing(t))
  BY DriesStep
<1> QED
  BY <1>1, SessionInvariant, PTL DEF Spec, RevokedDries

-----------------------------------------------------------------------------
(* No two refreshes of one token at a time: what a lock on its row would give,
   and nothing in token.service.ts does. *)
RefreshesApart ==
  \A p, q \in Process :
    req[p].op = "refresh" /\ req[q].op = "refresh" /\ req[p].pair = req[q].pair => p = q

(* "single-use", as refresh is meant: a token gives one new pair. *)
OneHeir == \A t \in Pair : Cardinality(Heirs(t)) <= 1

(* The pairs created for a token, and the refreshes that may still create one. *)
Exchanges(t) == Cardinality(Heirs(t)) + Cardinality(Refreshing(t))

OneExchange == \A t \in Pair : Exchanges(t) <= 1

LEMMA SetsAreFinite ==
  ASSUME NEW t \in Pair
  PROVE  /\ IsFiniteSet(Heirs(t)) /\ IsFiniteSet(Refreshing(t))
         /\ IsFiniteSet(Heirs(t)') /\ IsFiniteSet(Refreshing(t)')
<1>1. IsFiniteSet(Pair)
  BY FS_Interval, SessionAssumption DEF SessionAssumption, Pair
<1> QED
  BY <1>1, FS_Subset, SessionAssumption DEF SessionAssumption, Heirs, Refreshing

(* The step that spends t creates nothing out of it. *)
LEMMA SpentWithoutHeir ==
  ASSUME IInv, [Next]_vars, NEW t \in Pair, pairs[t].row \notin {"revoked", "deleted"}
  PROVE  Heirs(t)' = {}
<1>1. Heirs(t) = {}
  BY DEF IInv, PairInv, Heirs, Pair, None
<1>2. CASE UNCHANGED vars
  BY <1>1, <1>2 DEF vars, Heirs
<1>3. ASSUME NEW p \in Process, Start(p) \/ Step(p) \/ Abort(p), ~CreateToken(p)
      PROVE  Heirs(t)' = {}
  BY <1>1, <1>3, HeirsKept
<1>4. ASSUME NEW p \in Process, CreateToken(p) PROVE Heirs(t)' = {}
  <2>1. req[p].pair # t
    BY <1>4 DEF CreateToken, IInv, CallInv, Fits, FitsIn, None, Pair
  <2>2. PICK n \in Pair :
          pairs' = [pairs EXCEPT ![n] =
            [owner |-> req[p].account, parent |-> req[p].pair, row |-> "active", access |-> TRUE, fresh |-> TRUE]]
    BY <1>4 DEF CreateToken
  <2> QED
    BY <1>1, <2>1, <2>2 DEF Heirs, IInv, TypeInv
<1>5. ASSUME NEW s \in Pair, ExpireAccess(s) \/ ExpireRefresh(s) \/ CleanupExpiredTokens(s)
      PROVE  Heirs(t)' = {}
  BY <1>1, <1>5 DEF ExpireAccess, ExpireRefresh, CleanupExpiredTokens, Heirs, IInv, TypeInv, PairType
<1> QED
  BY <1>2, <1>3, <1>4, <1>5 DEF Next

(* While nothing was created out of t, the one call that refreshes it is all
   there is; once it is spent, RevocationDries keeps it that way. *)
LEMMA ExchangeKept ==
  ASSUME IInv, OneExchange, RefreshesApart', [Next]_vars, NEW t \in Pair
  PROVE  Exchanges(t)' <= 1
<1>0. /\ Cardinality(Heirs(t)) \in Nat /\ Cardinality(Refreshing(t)) \in Nat
      /\ Cardinality(Heirs(t)') \in Nat /\ Cardinality(Refreshing(t)') \in Nat
  BY SetsAreFinite, FS_CardinalityType
<1>1. CASE pairs[t].row \in {"revoked", "deleted"}
  <2>1. Cardinality(Heirs(t)') + Cardinality(Refreshing(t)')
          <= Cardinality(Heirs(t)) + Cardinality(Refreshing(t))
    BY <1>1, DriesStep
  <2> QED
    BY <1>0, <2>1 DEF OneExchange, Exchanges
<1>2. CASE pairs[t].row \notin {"revoked", "deleted"}
  <2>1. Cardinality(Heirs(t)') = 0
    BY <1>2, SpentWithoutHeir, FS_EmptySet
  <2>2. Cardinality(Refreshing(t)') <= 1
    <3>1. CASE Refreshing(t)' = {}
      BY <3>1, FS_EmptySet
    <3>2. ASSUME NEW p \in Refreshing(t)' PROVE Cardinality(Refreshing(t)') = 1
      <4>1. Refreshing(t)' = {p}
        BY <3>2 DEF RefreshesApart, Refreshing
      <4> QED
        BY <4>1, FS_Singleton
    <3> QED
      BY <3>1, <3>2
  <2> QED
    BY <1>0, <2>1, <2>2 DEF Exchanges
<1> QED
  BY <1>1, <1>2

LEMMA ExchangesInitially == Init => OneExchange
<1> SUFFICES ASSUME Init, NEW t \in Pair PROVE Exchanges(t) <= 1
  BY DEF OneExchange
<1>1. Heirs(t) = {} /\ Refreshing(t) = {}
  BY DEF Init, Heirs, Refreshing, NoPair, Idle, None, Pair
<1> QED
  BY <1>1, FS_EmptySet DEF Exchanges

(* The overlap of two refreshes is all that stands between rotation and
   "single-use": logins, logouts, deletions, the cleanup job, crashes between
   the two writes and retries after them never give a token a second heir. *)
THEOREM SingleUseAlone == Spec /\ []RefreshesApart => []OneHeir
<1>1. IInv /\ OneExchange /\ RefreshesApart' /\ [Next]_vars => OneExchange'
  BY ExchangeKept DEF OneExchange
<1>2. OneExchange => OneHeir
  BY SetsAreFinite, FS_CardinalityType DEF OneExchange, OneHeir, Exchanges
<1> QED
  BY <1>1, <1>2, ExchangesInitially, SessionInvariant, PTL DEF Spec

-----------------------------------------------------------------------------
(* What a step must not do once a is gone and quiet. *)
LEMMA StaysQuiet ==
  ASSUME IInv, NEW a \in Account, Quiet(a), NEW p \in Process,
         accounts'[a] = accounts[a], req'[p].account # a,
         \A q \in Process \ {p} : req'[q] = req[q],
         \A t \in Pair : pairs'[t].owner = a => pairs[t].owner = a /\ (pairs'[t].access => pairs[t].access)
  PROVE  accounts'[a] = accounts[a] /\ Quiet(a)'
  BY DEF Quiet, Authorised

LEMMA ErasedStep ==
  ASSUME IInv, NEW a \in Account, Gone(a), Quiet(a), NEW p \in Process, Start(p) \/ Step(p) \/ Abort(p)
  PROVE  accounts'[a] = accounts[a] /\ Quiet(a)'
<1>0. /\ req \in [Process -> CallType] /\ req[p] \in CallType /\ Fits(req[p])
      /\ pairs \in [Pair -> PairType] /\ accounts \in [Account -> AccountType]
      /\ req[p].account # a /\ ~Live(a)
      /\ Idle.account # a
  BY DEF IInv, TypeInv, CallInv, Quiet, Gone, Live, Idle, None, Account
<1>1. CASE Start(p)
  <2> DEFINE Begun == /\ req'[p].account # a
                      /\ \A q \in Process \ {p} : req'[q] = req[q]
  <2>1. ASSUME GoogleSignIn(p) PROVE Begun
    BY <1>0, <2>1 DEF GoogleSignIn, Begin, Idle
  <2>2. ASSUME Refresh(p) PROVE Begun
    BY <1>0, <2>2 DEF Refresh, Begin, Idle
  <2>3. ASSUME Logout(p) PROVE Begun
    BY <1>0, <2>3 DEF Logout, Begin, Idle
  <2>4. ASSUME UpdateProfile(p) PROVE Begun
    BY <1>0, <2>4 DEF UpdateProfile, Begin, Idle, Quiet
  <2>5. ASSUME DeleteAccount(p) PROVE Begun
    BY <1>0, <2>5 DEF DeleteAccount, Begin, Idle, Quiet
  <2>6. Begun /\ accounts' = accounts /\ pairs' = pairs
    BY <1>1, <2>1, <2>2, <2>3, <2>4, <2>5
       DEF Start, GoogleSignIn, Refresh, Logout, UpdateProfile, DeleteAccount, Begin
  <2> QED
    BY <2>6, StaysQuiet
<1>2. CASE Refuse(p)
  BY <1>0, <1>2, StaysQuiet DEF Refuse, End
<1>3. ASSUME NEW next, Goto(p, next) PROVE accounts'[a] = accounts[a] /\ Quiet(a)'
  <2>1. req'[p].account = req[p].account /\ \A q \in Process \ {p} : req'[q] = req[q]
    BY <1>0, <1>3 DEF Goto, CallType
  <2> QED
    BY <1>0, <1>3, <2>1, StaysQuiet DEF Goto
<1>4. CASE FindByFirebaseUid(p)
  <2>1. ASSUME NEW b \in Account, Live(b), req' = [req EXCEPT ![p] = Issuing(b, None)],
               UNCHANGED <<accounts, pairs>>
        PROVE  accounts'[a] = accounts[a] /\ Quiet(a)'
    <3>1. req'[p].account = b /\ \A q \in Process \ {p} : req'[q] = req[q]
      BY <1>0, <2>1 DEF Issuing, Idle
    <3> QED
      BY <1>0, <2>1, <3>1, StaysQuiet
  <2> QED
    BY <1>3, <1>4, <2>1 DEF FindByFirebaseUid
<1>5. CASE GenerateUniqueHandle(p)
  <2>1. CASE ~Refuse(p)
    <3> DEFINE name == Candidates[req[p].identity][req[p].try]
               c == IF Taken(name) THEN [req[p] EXCEPT !.try = req[p].try + 1]
                    ELSE [req[p] EXCEPT !.at = "createUser", !.handle = name]
    <3>1. req' = [req EXCEPT ![p] = c] /\ UNCHANGED <<accounts, pairs>>
      BY <1>0, <1>5, <2>1 DEF GenerateUniqueHandle
    <3>2. c.account = req[p].account
      BY <1>0 DEF CallType
    <3> HIDE DEF c
    <3>3. req'[p].account = req[p].account /\ \A q \in Process \ {p} : req'[q] = req[q]
      BY <1>0, <3>1, <3>2
    <3> QED
      BY <1>0, <3>1, <3>3, StaysQuiet
  <2> QED
    BY <1>2, <2>1
<1>6. CASE CreateUser(p)
  <2>1. CASE ~Refuse(p)
    <3>1. PICK b \in Account \ Rows :
            /\ accounts' = [accounts EXCEPT ![b] =
                 [state |-> "live", identity |-> req[p].identity, handle |-> req[p].handle]]
            /\ req' = [req EXCEPT ![p] = Issuing(b, None)]
      BY <1>6, <2>1 DEF CreateUser
    <3>2. pairs' = pairs
      BY <1>6, <2>1 DEF CreateUser
    <3>3. b # a
      BY <3>1 DEF Rows, Gone
    <3>4. req'[p].account = b /\ \A q \in Process \ {p} : req'[q] = req[q]
      BY <1>0, <3>1 DEF Issuing, Idle
    <3> QED
      BY <1>0, <3>1, <3>2, <3>3, <3>4, StaysQuiet
  <2> QED
    BY <1>2, <2>1
<1>7. CASE CreateToken(p)
  <2>1. PICK n \in Pair :
          pairs' = [pairs EXCEPT ![n] =
            [owner |-> req[p].account, parent |-> req[p].pair, row |-> "active", access |-> TRUE, fresh |-> TRUE]]
    BY <1>7 DEF CreateToken
  <2>2. accounts' = accounts /\ req' = [req EXCEPT ![p] = Idle]
    BY <1>7 DEF CreateToken, End
  <2>3. \A t \in Pair : pairs'[t].owner = a => pairs'[t] = pairs[t]
    BY <1>0, <2>1
  <2> QED
    BY <1>0, <2>2, <2>3, StaysQuiet
<1>8. CASE FindActiveByHash(p) \/ FindUnique(p) \/ FindByHandle(p)
  BY <1>2, <1>3, <1>8 DEF FindActiveByHash, FindUnique, FindByHandle
<1>9. CASE FindById(p)
  <2>1. CASE ~Refuse(p)
    <3>1. /\ req'[p].account = Subject(p) /\ Live(Subject(p))
          /\ \A q \in Process \ {p} : req'[q] = req[q]
          /\ UNCHANGED <<accounts, pairs>>
      BY <1>0, <1>9, <2>1 DEF FindById, CallType
    <3> QED
      BY <1>0, <3>1, StaysQuiet
  <2> QED
    BY <1>2, <2>1
<1>10. CASE RevokeById(p) \/ RevokeByHash(p) \/ RevokeAllForUser(p)
  <2>1. CASE ~Refuse(p)
    <3>1. \A t \in Pair : pairs'[t].owner = pairs[t].owner /\ pairs'[t].access = pairs[t].access
      BY <1>0, <1>10, <2>1 DEF RevokeById, RevokeByHash, RevokeAllForUser, PairType
    <3>2. /\ req'[p].account \in {req[p].account, Idle.account}
          /\ \A q \in Process \ {p} : req'[q] = req[q]
          /\ accounts' = accounts
      BY <1>0, <1>10, <2>1 DEF RevokeById, RevokeByHash, RevokeAllForUser, End, CallType
    <3> QED
      BY <1>0, <3>1, <3>2, StaysQuiet
  <2> QED
    BY <1>2, <2>1
<1>11. CASE Update(p) \/ SoftDelete(p)
  <2>1. accounts'[a] = accounts[a] /\ pairs' = pairs /\ req' = [req EXCEPT ![p] = Idle]
    BY <1>0, <1>11 DEF Update, SoftDelete, End
  <2> QED
    BY <1>0, <2>1, StaysQuiet
<1> QED
  BY <1>1, <1>2, <1>4, <1>5, <1>6, <1>7, <1>8, <1>9, <1>10, <1>11 DEF Step, Abort

(* The calls and tokens of a racing sign-in, refresh or profile update are the
   last that touch a deleted account. *)
THEOREM ErasureIsFinal == Spec => ErasedIsFinal
<1>1. ASSUME IInv, [Next]_vars, NEW a \in Account, Gone(a), Quiet(a)
      PROVE  accounts'[a] = accounts[a] /\ Quiet(a)'
  <2>1. CASE UNCHANGED vars
    BY <1>1, <2>1 DEF vars, Quiet, Authorised
  <2>2. ASSUME NEW p \in Process, Start(p) \/ Step(p) \/ Abort(p)
        PROVE  accounts'[a] = accounts[a] /\ Quiet(a)'
    BY <1>1, <2>2, ErasedStep
  <2>3. ASSUME NEW t \in Pair, ExpireAccess(t) \/ ExpireRefresh(t) \/ CleanupExpiredTokens(t)
        PROVE  accounts'[a] = accounts[a] /\ Quiet(a)'
    <3>1. \A s \in Pair : pairs'[s].owner = pairs[s].owner /\ (pairs'[s].access => pairs[s].access)
      BY <1>1, <2>3 DEF ExpireAccess, ExpireRefresh, CleanupExpiredTokens, IInv, TypeInv, PairType
    <3> QED
      BY <1>1, <2>3, <3>1 DEF ExpireAccess, ExpireRefresh, CleanupExpiredTokens, Quiet, Authorised
  <2> QED
    BY <1>1, <2>1, <2>2, <2>3 DEF Next
<1>2. IInv /\ [Next]_vars =>
        \A a \in Account : Gone(a) /\ Quiet(a) => accounts'[a] = accounts[a] /\ Quiet(a)'
  BY <1>1
<1> QED
  BY <1>2, SessionInvariant, PTL DEF Spec, ErasedIsFinal
==============================================================================
