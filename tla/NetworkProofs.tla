---------------------------- MODULE NetworkProofs ----------------------------
(***************************************************************************)
(* Every behaviour of a network with any number of accounts is a behaviour *)
(* of run_model(), whose address domain is finite.                         *)
(***************************************************************************)
EXTENDS Network, RunModelProofs

\* The settings under which the model stands for the network: there are
\* representatives and interference, the invariant, if any, is checked and not
\* only assumed, no address comes from ecrecover, every role variable has been
\* counted, and the constructors, which run without interference in between,
\* need no more clients than there are.
CutOffMet ==
    /\ NetworkOK
    /\ ~ Concrete
    /\ CanInfer
    /\ ~ UsesCrypto
    /\ Rule /= "unchecked"
    /\ Rule = "checked" => InvValues /= {}
    /\ RoleVarCt <= RoleDefCt
    /\ RootCt * (1 + CtorArgs) <= RoleDefCt + client_ct

-----------------------------------------------------------------------------
(***************************************************************************)
(* The inductive invariant.                                                *)
(***************************************************************************)

\* Names are unique, those of fixed accounts never change, and all others are
\* representatives.
NameOK(n) ==
    /\ DOMAIN n \subseteq Accounts
    /\ n \in [DOMAIN n -> RawAddress]
    /\ Fixed \subseteq DOMAIN n
    /\ \A a \in Fixed : n[a] = FixedName[a]
    /\ \A a \in DOMAIN n \ Fixed : n[a] \in Representatives
    /\ \A a, b \in DOMAIN n : n[a] = n[b] => a = b

NetType ==
    /\ holder \in [Roles -> Accounts]
    /\ book \in [Entries -> Values]
    /\ NameOK(name)
    /\ pc \in {"time", "call"} => params \in [1 .. MethodArgs -> Accounts]

\* The addresses of the model are the names of the accounts in their place.
LinkInv ==
    /\ \A r \in Roles : holder[r] \in DOMAIN name /\ role[r] = name[holder[r]]
    /\ pc = "literals" => \A r \in Roles : holder[r] = Nobody
    /\ \A l \in Literals : l <= lits => lit[l] = name[LiteralAt[l]]
    /\ pc \in {"time", "call", "body"} =>
          /\ caller \in DOMAIN name \ ({Nobody} \cup Deployed)
          /\ \A i \in DOMAIN params : params[i] \in DOMAIN name
    /\ pc = "body" =>
          /\ sender = name[caller]
          /\ args = [i \in DOMAIN params |-> name[params[i]]]

\* The model knows the entries of the accounts with names.
AgreeInv ==
    \A e \in [1 .. Depth -> DOMAIN name] : data[Renamed(name, e)] = book[e]

Seen(e) == \A i \in 1 .. Depth : e[i] \in DOMAIN name

\* Nobody without a name has done anything yet, and no representative that is
\* not taken has been used.
Fresh ==
    /\ \A e \in Entries : ~ Seen(e) => book[e] = Zero
    /\ \A k \in Keys :
          (\E i \in 1 .. Depth : k[i] >= implicit_count /\ k[i] \notin Taken(name))
              => data[k] = Zero

\* Some constructor has not returned yet.
Starting == inits < RootCt

\* The entries of everybody else are zero at first, and conform to the
\* invariant once the network has been compared with it.
UnseenInv ==
    /\ pc /= "body" => (Starting <=> pc \in {"literals", "init_time", "init_call"})
    /\ Starting => Fresh
    /\ Rule = "checked" =>
          \/ Fresh
          \/ \A e \in Entries : ~ Seen(e) => book[e] \in InvValues
    /\ Rule = "checked" /\ pc = "apply" =>
          \A e \in Entries : Interfered(e) => book[e] \in InvValues

\* Representatives taken by the constructors called so far.
Called == IF pc = "body" THEN inits + 1 ELSE inits

TakenInv ==
    Starting => Cardinality(Taken(name) \cap Representatives) <= Called * (1 + CtorArgs)

NetInv == NetType /\ LinkInv /\ AgreeInv /\ UnseenInv /\ TakenInv

NInv == SafeInv /\ NetInv

-----------------------------------------------------------------------------
(***************************************************************************)
(* Names.                                                                  *)
(***************************************************************************)

\* The fixed accounts get different implicit addresses; literals that are no
\* contracts can send transactions.
LEMMA FixedNames ==
    ASSUME NetworkOK
    PROVE  /\ Fixed \subseteq Accounts
           /\ FixedName \in [Fixed -> Implicit]
           /\ FixedName[Nobody] = 0
           /\ \A i \in Contracts : FixedName[ContractAt[i]] = i
           /\ \A a \in Fixed \ {Nobody} : FixedName[a] \in 1 .. (implicit_count - 1)
           /\ \A a \in Fixed \ ({Nobody} \cup Deployed) : FixedName[a] \in Senders
           /\ \A a, b \in Fixed : FixedName[a] = FixedName[b] => a = b
<1>1. Fixed \subseteq Accounts
  BY DEF NetworkOK, Fixed, Deployed
<1>2. FixedName[Nobody] = 0
  BY DEF FixedName, Fixed
<1>3. ASSUME NEW a \in Deployed
      PROVE  \E i \in Contracts : FixedName[a] = i /\ ContractAt[i] = a
  <2>1. \E i \in Contracts : ContractAt[i] = a
    BY DEF Deployed
  <2>2. a /= Nobody /\ a \in Fixed
    BY <2>1 DEF NetworkOK, Fixed, Deployed
  <2>3. FixedName[a] = CHOOSE i \in Contracts : ContractAt[i] = a
    BY <1>3, <2>2 DEF FixedName
  <2> QED
    BY <2>1, <2>3
<1>4. ASSUME NEW i \in Contracts PROVE FixedName[ContractAt[i]] = i
  <2>1. ContractAt[i] \in Deployed
    BY DEF Deployed
  <2> QED
    BY <1>3, <2>1 DEF NetworkOK
<1>5. ASSUME NEW a \in Fixed \ ({Nobody} \cup Deployed)
      PROVE  \E l \in Literals : FixedName[a] = ContractCt + l /\ LiteralAt[l] = a
  <2>1. \E l \in Literals : LiteralAt[l] = a
    BY DEF Fixed
  <2>2. FixedName[a] = ContractCt + CHOOSE l \in Literals : LiteralAt[l] = a
    BY <1>5 DEF FixedName
  <2> QED
    BY <2>1, <2>2
<1>6. /\ \A i \in Contracts : i \in 1 .. (implicit_count - 1) /\ i <= ContractCt /\ i \in Int
      /\ \A l \in Literals : /\ ContractCt + l \in 1 .. (implicit_count - 1)
                             /\ ContractCt + l \in (ContractCt + 1) .. (max_sender - 1)
                             /\ ContractCt + l > ContractCt
                             /\ l \in Int
      /\ ContractCt \in Int
  BY DomainAssumption, DomainLayout DEF Contracts, Literals, implicit_count
<1>7. \A a \in Fixed : a \in {Nobody} \/ a \in Deployed \/ a \in Fixed \ ({Nobody} \cup Deployed)
  OBVIOUS
<1>8. ASSUME NEW a \in Fixed \ {Nobody} PROVE FixedName[a] \in 1 .. (implicit_count - 1)
  BY <1>3, <1>5, <1>6, <1>7, <1>8
<1>9. ASSUME NEW a \in Fixed \ ({Nobody} \cup Deployed) PROVE FixedName[a] \in Senders
  BY <1>5, <1>6, <1>9, DomainLayout
<1>10. ASSUME NEW a \in Fixed, NEW b \in Fixed, FixedName[a] = FixedName[b] PROVE a = b
  <2>1. CASE a = Nobody \/ b = Nobody
    BY <1>2, <1>8, <1>10, <2>1
  <2>2. CASE a \in Deployed /\ b \in Deployed
    BY <1>3, <1>10, <2>2
  <2>3. CASE a \in Deployed /\ b \in Fixed \ ({Nobody} \cup Deployed)
    BY <1>3, <1>5, <1>6, <1>10, <2>3
  <2>4. CASE b \in Deployed /\ a \in Fixed \ ({Nobody} \cup Deployed)
    BY <1>3, <1>5, <1>6, <1>10, <2>4
  <2>5. CASE a \in Fixed \ ({Nobody} \cup Deployed) /\ b \in Fixed \ ({Nobody} \cup Deployed)
    <3>1. PICK l \in Literals : FixedName[a] = ContractCt + l /\ LiteralAt[l] = a
      BY <1>5, <2>5
    <3>2. PICK m \in Literals : FixedName[b] = ContractCt + m /\ LiteralAt[m] = b
      BY <1>5, <2>5
    <3>3. l \in Int /\ m \in Int /\ ContractCt \in Int /\ ContractCt + l = ContractCt + m
      BY <1>6, <1>10, <3>1, <3>2
    <3>4. l = m
      BY <3>3
    <3> QED
      BY <3>1, <3>2, <3>4
  <2> QED
    BY <1>7, <2>1, <2>2, <2>3, <2>4, <2>5
<1>11. FixedName \in [Fixed -> Implicit]
  <2>1. \A a \in Fixed : FixedName[a] \in Implicit
    BY <1>2, <1>8, DomainLayout, DomainAssumption DEF Implicit
  <2> QED
    BY <2>1 DEF FixedName
<1> QED
  BY <1>1, <1>2, <1>4, <1>8, <1>9, <1>10, <1>11

\* A finite set can be mapped one to one into a set that is not smaller.
LEMMA InjectionExists ==
    ASSUME NEW S, NEW T, IsFiniteSet(S), IsFiniteSet(T), Cardinality(S) <= Cardinality(T)
    PROVE  \E f \in [S -> T] : \A a, b \in S : f[a] = f[b] => a = b
<1> DEFINE s == Cardinality(S)
           t == Cardinality(T)
<1>1. s \in Nat /\ t \in Nat /\ s <= t
  BY FS_CardinalityType
<1>2. PICK f : f \in Bijection(1 .. s, S)
  BY FS_CardinalityType DEF ExistsBijection
<1>3. PICK g : g \in Bijection(1 .. t, T)
  BY FS_CardinalityType DEF ExistsBijection
<1>4. f \in [1 .. s -> S] /\ \A x \in S : \E i \in 1 .. s : f[i] = x
  BY <1>2 DEF Bijection, Surjection
<1>5. g \in [1 .. t -> T] /\ \A i, j \in 1 .. t : g[i] = g[j] => i = j
  BY <1>3 DEF Bijection, Injection, IsInjective
<1> DEFINE at == [x \in S |-> CHOOSE i \in 1 .. s : f[i] = x]
           h == [x \in S |-> g[at[x]]]
<1>6. \A x \in S : at[x] \in 1 .. s /\ f[at[x]] = x
  BY <1>4
<1> HIDE DEF s, t, at
<1>7. \A x \in S : at[x] \in 1 .. t
  BY <1>1, <1>6
<1>8. h \in [S -> T]
  BY <1>5, <1>7
<1>9. \A a, b \in S : h[a] = h[b] => a = b
  <2> SUFFICES ASSUME NEW a \in S, NEW b \in S, h[a] = h[b] PROVE a = b
    OBVIOUS
  <2>1. at[a] = at[b]
    BY <1>5, <1>7
  <2> QED
    BY <1>6, <2>1
<1> QED
  BY <1>8, <1>9

\* Representatives are participants, and none of them is an implicit address.
LEMMA RepresentativeFacts ==
    /\ IsFiniteSet(Representatives)
    /\ Representatives \subseteq RawAddress
    /\ Implicit \subseteq RawAddress
    /\ Representatives \cap Implicit = {}
    /\ \A a \in Representatives : a >= implicit_count /\ a \in Senders
    /\ RawAddress \subseteq Addr
<1>1. implicit_count \in Int /\ max_sender - 1 \in Int
  BY DomainLayout
<1>2. IsFiniteSet(Representatives)
  BY <1>1, FS_Interval DEF Representatives
<1> QED
  BY <1>2, DomainLayout, DomainAssumption DEF Representatives, Implicit, Addr

\* Everybody involved in a transaction can get a representative of his own if
\* enough of them are left.
LEMMA ExtendedNames ==
    ASSUME NetworkOK, NEW n, NameOK(n), NEW who, who \subseteq Accounts, IsFiniteSet(who),
           Cardinality(who) <= Cardinality(Representatives \ Taken(n))
    PROVE  /\ NameOK(Extended(n, who))
           /\ DOMAIN Extended(n, who) = DOMAIN n \cup who
           /\ \A a \in DOMAIN n : Extended(n, who)[a] = n[a]
           /\ \A a \in who \ DOMAIN n :
                  Extended(n, who)[a] \in Representatives \ Taken(n)
<1> DEFINE new == who \ DOMAIN n
           free == Representatives \ Taken(n)
           own == CHOOSE f \in [new -> free] : \A a, b \in new : f[a] = f[b] => a = b
           m == Extended(n, who)
<1>1. IsFiniteSet(new) /\ Cardinality(new) <= Cardinality(who)
  BY FS_Subset
<1>2. IsFiniteSet(free)
  BY RepresentativeFacts, FS_Subset
<1>3. Cardinality(new) <= Cardinality(free)
  BY <1>1, <1>2, FS_CardinalityType
<1>4. \E f \in [new -> free] : \A a, b \in new : f[a] = f[b] => a = b
  BY <1>1, <1>2, <1>3, InjectionExists
<1>5. own \in [new -> free] /\ \A a, b \in new : own[a] = own[b] => a = b
  BY <1>4
<1>6. m = [a \in DOMAIN n \cup who |-> IF a \in DOMAIN n THEN n[a] ELSE own[a]]
  BY DEF Extended
<1> HIDE DEF m, own
<1>7. DOMAIN m = DOMAIN n \cup who /\ \A a \in DOMAIN n : m[a] = n[a]
  BY <1>6
<1>8. \A a \in new : m[a] = own[a] /\ m[a] \in free
  BY <1>5, <1>6
<1>9. NameOK(m)
  <2>1. \A a \in DOMAIN m : a \in DOMAIN n \/ a \in new
    BY <1>7
  <2>2. DOMAIN m \subseteq Accounts /\ Fixed \subseteq DOMAIN m
    BY <1>7 DEF NameOK
  <2>3. \A a \in DOMAIN m : m[a] \in RawAddress
    BY <1>7, <1>8, <2>1, RepresentativeFacts DEF NameOK
  <2>4. \A a \in Fixed : m[a] = FixedName[a]
    BY <1>7 DEF NameOK
  <2>5. \A a \in DOMAIN m \ Fixed : m[a] \in Representatives
    BY <1>7, <1>8, <2>1 DEF NameOK
  <2>6. ASSUME NEW a \in DOMAIN m, NEW b \in DOMAIN m, m[a] = m[b] PROVE a = b
    <3>1. CASE a \in DOMAIN n /\ b \in DOMAIN n
      BY <1>7, <2>6, <3>1 DEF NameOK
    <3>2. CASE a \in new /\ b \in new
      BY <1>5, <1>8, <2>6, <3>2
    <3>3. CASE a \in DOMAIN n /\ b \in new
      BY <1>7, <1>8, <2>6, <3>3 DEF Taken
    <3>4. CASE a \in new /\ b \in DOMAIN n
      BY <1>7, <1>8, <2>6, <3>4 DEF Taken
    <3> QED
      BY <2>1, <3>1, <3>2, <3>3, <3>4
  <2>7. m \in [DOMAIN m -> RawAddress]
    BY <1>6, <2>3
  <2> QED
    BY <2>2, <2>4, <2>5, <2>6, <2>7 DEF NameOK
<1> QED
  BY <1>7, <1>8, <1>9 DEF m

\* A transaction with m arguments involves at most m + 1 accounts.
LEMMA InvolvedSize ==
    ASSUME NEW m \in Nat, NEW c \in Accounts, NEW p \in [1 .. m -> Accounts]
    PROVE  /\ Involved(c, p) \subseteq Accounts
           /\ IsFiniteSet(Involved(c, p))
           /\ Cardinality(Involved(c, p)) <= 1 + m
           /\ c \in Involved(c, p)
           /\ \A i \in 1 .. m : p[i] \in Involved(c, p)
<1> DEFINE P == {p[i] : i \in 1 .. m}
<1>1. IsFiniteSet(1 .. m) /\ Cardinality(1 .. m) = m
  BY FS_Interval
<1>2. p \in Surjection(1 .. m, P)
  BY DEF Surjection
<1>3. IsFiniteSet(P) /\ Cardinality(P) <= m
  BY <1>1, <1>2, FS_Surjection
<1>4. Involved(c, p) = P \cup {c}
  BY DEF Involved
<1> HIDE DEF P
<1>5. IsFiniteSet(P \cup {c}) /\ Cardinality(P \cup {c}) <= Cardinality(P) + 1
  <2>1. Cardinality(P) \in Nat
    BY <1>3, FS_CardinalityType
  <2>2. IsFiniteSet(P \cup {c})
        /\ Cardinality(P \cup {c}) = IF c \in P THEN Cardinality(P) ELSE Cardinality(P) + 1
    BY <1>3, FS_AddElement
  <2> QED
    BY <2>1, <2>2
<1>6. Cardinality(P \cup {c}) <= 1 + m
  BY <1>3, <1>5, FS_CardinalityType
<1>7. Involved(c, p) \subseteq Accounts /\ c \in Involved(c, p)
      /\ \A i \in 1 .. m : p[i] \in Involved(c, p)
  BY DEF Involved
<1> QED
  BY <1>4, <1>5, <1>6, <1>7

\* A key and the entry it is the name of determine each other.
LEMMA RenamedKeys ==
    ASSUME NEW n, NameOK(n), NEW e \in [1 .. Depth -> DOMAIN n]
    PROVE  /\ Renamed(n, e) \in Keys
           /\ \A i \in 1 .. Depth : Renamed(n, e)[i] = n[e[i]]
           /\ e \in Entries
           /\ \A f \in [1 .. Depth -> DOMAIN n] : Renamed(n, f) = Renamed(n, e) => f = e
<1>1. \A i \in 1 .. Depth : Renamed(n, e)[i] = n[e[i]] /\ n[e[i]] \in Addr
  BY RepresentativeFacts DEF Renamed, NameOK
<1>2. Renamed(n, e) \in Keys
  BY <1>1 DEF Renamed, Keys
<1>3. ASSUME NEW f \in [1 .. Depth -> DOMAIN n], Renamed(n, f) = Renamed(n, e) PROVE f = e
  <2>1. \A i \in 1 .. Depth : Renamed(n, f)[i] = n[f[i]]
    BY DEF Renamed
  <2>2. \A i \in 1 .. Depth : f[i] = e[i]
    BY <1>1, <1>3, <2>1 DEF NameOK
  <2>3. f = [i \in 1 .. Depth |-> f[i]] /\ e = [i \in 1 .. Depth |-> e[i]]
    OBVIOUS
  <2> QED
    BY <2>2, <2>3, Zenon
<1> QED
  BY <1>1, <1>2, <1>3 DEF Entries, NameOK

-----------------------------------------------------------------------------
(***************************************************************************)
(* There are enough representatives.                                       *)
(***************************************************************************)

\* Whoever keeps his name after a transaction, a representative is left for
\* everybody in the next one.
LEMMA RememberedNames ==
    ASSUME CutOffMet, NInv, pc /= "literals"
    PROVE  /\ NameOK(Remembered)
           /\ DOMAIN Remembered = Fixed \cup Holders
           /\ \A a \in Fixed \cup Holders : Remembered[a] = name[a]
           /\ Cardinality(Representatives \ Taken(Remembered)) >= client_ct
<1>1. DOMAIN Remembered = Fixed \cup Holders
      /\ \A a \in Fixed \cup Holders : Remembered[a] = name[a]
  BY DEF Remembered
<1>2. Fixed \cup Holders \subseteq DOMAIN name
  BY DEF NInv, NetInv, NetType, NameOK, LinkInv, Holders
<1>3. NameOK(Remembered)
  <2>1. \A a \in Fixed \cup Holders : Remembered[a] \in RawAddress
    BY <1>1, <1>2 DEF NInv, NetInv, NetType, NameOK
  <2>2. Remembered \in [DOMAIN Remembered -> RawAddress]
    BY <1>1, <2>1 DEF Remembered
  <2> QED
    BY <1>1, <1>2, <2>2 DEF NInv, NetInv, NetType, NameOK
<1>4. Representatives \ Named \subseteq Representatives \ Taken(Remembered)
  <2> SUFFICES ASSUME NEW a \in Fixed \cup Holders, name[a] \in Representatives
               PROVE  name[a] \in Named
    BY <1>1 DEF Taken
  <2>1. CASE a \in Fixed
    <3>1. name[a] \in Implicit
      BY <2>1, FixedNames DEF CutOffMet, NInv, NetInv, NetType, NameOK
    <3> QED
      BY <3>1, RepresentativeFacts
  <2>2. CASE a \in Holders
    BY <2>2 DEF NInv, NetInv, LinkInv, Holders, Named
  <2> QED
    BY <2>1, <2>2
<1>5. Cardinality(Representatives \ Named) >= client_ct
  BY FreeClients DEF CutOffMet, NInv, SafeInv, TypeInv
<1>6. IsFiniteSet(Representatives \ Taken(Remembered))
  BY RepresentativeFacts, FS_Subset
<1>7. Cardinality(Representatives \ Named) <= Cardinality(Representatives \ Taken(Remembered))
      /\ IsFiniteSet(Representatives \ Named)
  BY <1>4, <1>6, FS_Subset
<1>8. Cardinality(Representatives \ Taken(Remembered)) >= client_ct
  <2>1. Cardinality(Representatives \ Named) \in Nat
        /\ Cardinality(Representatives \ Taken(Remembered)) \in Nat
        /\ client_ct \in Nat
    BY <1>6, <1>7, FS_CardinalityType, DomainAssumption DEF client_ct
  <2> QED
    BY <1>5, <1>7, <2>1
<1> QED
  BY <1>1, <1>3, <1>8

\* The constructors called so far leave enough for the next one.
LEMMA ConstructorFits ==
    ASSUME CutOffMet, NInv, Starting, pc = "init_call"
    PROVE  Cardinality(Representatives \ Taken(name)) >= 1 + CtorArgs
<1> DEFINE T == Taken(name) \cap Representatives
           m == 1 + CtorArgs
<1>1. IsFiniteSet(Representatives) /\ Cardinality(Representatives) = RoleDefCt + client_ct
  BY RepresentativeCount DEF CutOffMet
<1>2. IsFiniteSet(T)
  BY <1>1, FS_Subset
<1>3. Cardinality(Representatives \ Taken(name)) = Cardinality(Representatives) - Cardinality(T)
  <2>1. Cardinality(Representatives \ Taken(name))
           = Cardinality(Representatives) - Cardinality(Representatives \cap Taken(name))
    BY <1>1, FS_Difference
  <2>2. Representatives \cap Taken(name) = T
    OBVIOUS
  <2> QED
    BY <2>1, <2>2
<1>4. Cardinality(T) <= inits * m
  BY DEF NInv, NetInv, TakenInv, Called
<1>5. Cardinality(T) \in Nat
  BY <1>2, FS_CardinalityType
<1>6. RootCt * m <= RoleDefCt + client_ct
  BY DEF CutOffMet
<1>7. inits \in Nat /\ RootCt \in Nat /\ m \in Nat /\ inits + 1 <= RootCt
  BY RunAssumption, DomainAssumption DEF Starting, NInv, SafeInv, TypeInv, TypeOK
<1>8. RoleDefCt + client_ct \in Nat
  BY DomainAssumption DEF client_ct
<1> HIDE DEF T, m
<1>9. inits * m + m <= RootCt * m
  <2>1. ASSUME NEW x \in Nat, NEW y \in Nat, NEW z \in Nat, x + 1 <= y
        PROVE  x * z + z <= y * z
    <3>1. PICK d \in Nat : y = (x + 1) + d
      <4>1. y - (x + 1) \in Nat
        BY <2>1
      <4> QED
        BY <4>1
    <3>2. y * z = (x * z + z) + d * z
      BY <3>1
    <3>3. d * z \in Nat /\ x * z \in Nat
      OBVIOUS
    <3> QED
      BY <3>2, <3>3
  <2> QED
    BY <1>7, <2>1
<1>10. inits * m \in Nat /\ RootCt * m \in Nat
  BY <1>7
<1>11. Cardinality(Representatives) - Cardinality(T) >= m
  BY <1>1, <1>4, <1>5, <1>6, <1>7, <1>8, <1>9, <1>10
<1> QED
  BY <1>3, <1>11 DEF m

-----------------------------------------------------------------------------
(***************************************************************************)
(* Accounts and addresses.                                                 *)
(***************************************************************************)

\* A body of the model can name whatever a body in the network can name.
LEMMA NameableInScope ==
    ASSUME CutOffMet, NInv, pc = "body", NEW a \in Nameable
    PROVE  a \in DOMAIN name /\ name[a] \in InScope
<1>1. CASE a = Nobody
  BY <1>1, FixedNames DEF CutOffMet, NInv, NetInv, NetType, NameOK, Fixed, InScope
<1>2. CASE a \in Deployed
  <2>1. PICK i \in Contracts : a = ContractAt[i]
    BY <1>2 DEF Deployed
  <2>2. a \in DOMAIN name /\ name[a] = i
    BY <1>2, <2>1, FixedNames DEF CutOffMet, NInv, NetInv, NetType, NameOK, Fixed
  <2> QED
    BY <2>2 DEF InScope
<1>3. CASE \E l \in Literals : a = LiteralAt[l]
  <2>1. PICK l \in Literals : a = LiteralAt[l]
    BY <1>3
  <2>2. lits = NumLit
    BY DEF NInv, SafeInv, LiteralsInv
  <2>3. l <= lits
    BY <2>2, DomainAssumption DEF Literals
  <2>4. lit[l] = name[a]
    BY <2>1, <2>3 DEF NInv, NetInv, LinkInv
  <2>5. a \in DOMAIN name
    BY <2>1 DEF NInv, NetInv, NetType, NameOK, Fixed
  <2> QED
    BY <2>4, <2>5 DEF InScope
<1>4. CASE a = caller
  BY <1>4 DEF NInv, NetInv, LinkInv, InScope
<1>5. CASE a \in Holders
  BY <1>5 DEF NInv, NetInv, LinkInv, InScope, Holders
<1>6. CASE \E i \in DOMAIN params : a = params[i]
  BY <1>6 DEF NInv, NetInv, LinkInv, InScope
<1> QED
  BY <1>1, <1>2, <1>3, <1>4, <1>5, <1>6 DEF Nameable, Fixed

\* The model interferes with the entries of an account exactly if other
\* transactions may have changed them.
LEMMA InterferedAbstract ==
    ASSUME NetworkOK, NEW n, NameOK(n),
           \A r \in Roles : holder[r] \in DOMAIN n /\ role[r] = n[holder[r]],
           NEW e \in [1 .. Depth -> DOMAIN n]
    PROVE  Abstract(Renamed(n, e)) <=> Interfered(e)
<1> DEFINE k == Renamed(n, e)
<1>1. \A i \in 1 .. Depth : k[i] = n[e[i]] /\ k[i] \in Addr
  <2>1. Renamed(n, e) \in Keys
    BY RenamedKeys
  <2>2. \A i \in 1 .. Depth : Renamed(n, e)[i] = n[e[i]]
    BY DEF Renamed
  <2> QED
    BY <2>1, <2>2 DEF Keys
<1>2. ASSUME NEW i \in 1 .. Depth PROVE k[i] >= implicit_count <=> e[i] \notin Fixed
  <2>1. CASE e[i] \in Fixed
    <3>1. k[i] \in Implicit
      BY <1>1, <2>1, FixedNames DEF NameOK
    <3>2. ~ (k[i] >= implicit_count)
      BY <3>1, DomainLayout DEF Implicit
    <3> QED
      BY <2>1, <3>2
  <2>2. CASE e[i] \notin Fixed
    <3>1. k[i] \in Representatives
      BY <1>1, <2>2 DEF NameOK
    <3> QED
      BY <2>2, <3>1, RepresentativeFacts
  <2> QED
    BY <2>1, <2>2
<1>3. ASSUME NEW i \in 1 .. Depth
      PROVE  (\A r \in Roles : role[r] /= k[i]) <=> e[i] \notin Holders
  <2>1. \A r \in Roles : role[r] = k[i] <=> holder[r] = e[i]
    BY <1>1 DEF NameOK
  <2> QED
    BY <2>1 DEF Holders
<1>4. 1 \in 1 .. Depth /\ \A i \in 1 .. Depth : k[i] >= 0
  BY <1>1, RunAssumption DEF Addr
<1> HIDE DEF k
<1>5. CASE Type = "universal"
  BY <1>4, <1>5 DEF Abstract, Expanded, Guard, Interfered, k
<1>6. CASE Type = "singleton"
  BY <1>2, <1>6 DEF Abstract, Expanded, Guard, Interfered, k
<1>7. CASE Type = "rolebased"
  BY <1>2, <1>3, <1>7 DEF Abstract, Expanded, Guard, Interfered, k
<1> QED
  BY <1>5, <1>6, <1>7, RunAssumption

\* Entries of accounts without names are subject to interference.
LEMMA UnseenInterfered ==
    ASSUME NInv, NEW e \in Entries, ~ Seen(e)
    PROVE  Interfered(e)
<1>1. PICK i \in 1 .. Depth : e[i] \notin DOMAIN name
  BY DEF Seen
<1>2. e[i] \notin Fixed /\ e[i] \notin Holders
  BY <1>1 DEF NInv, NetInv, NetType, NameOK, LinkInv, Holders
<1> QED
  BY <1>2 DEF Interfered

\* The extra client of a checked model stands for an account without a name.
LEMMA WitnessKey ==
    ASSUME Rule = "checked", NInv, pc /= "literals",
           NEW w, w = [i \in 1 .. Depth |-> max_sender]
    PROVE  /\ w \in Keys
           /\ Abstract(w)
           /\ \E i \in 1 .. Depth : w[i] >= implicit_count /\ w[i] \notin Taken(name)
<1>1. max_sender \in Addr /\ max_sender >= implicit_count /\ max_sender >= 0
  BY DomainLayout DEF Addr, count, inf_ct
<1>2. max_sender \notin RawAddress
  BY DomainLayout
<1>3. 1 \in 1 .. Depth
  BY RunAssumption
<1>4. \A r \in Roles : role[r] /= max_sender
  BY <1>2 DEF NInv, SafeInv, RolesInv
<1>5. max_sender \notin Taken(name)
  BY <1>2 DEF NInv, NetInv, NetType, NameOK, Taken
<1>6. w \in Keys /\ \A i \in 1 .. Depth : w[i] = max_sender
  BY <1>1 DEF Keys
<1>7. Abstract(w)
  BY <1>1, <1>3, <1>4, <1>6 DEF Abstract, Expanded, Guard
<1> QED
  BY <1>1, <1>3, <1>5, <1>6, <1>7

-----------------------------------------------------------------------------
(***************************************************************************)
(* Every step is a step of the model and keeps the invariant.              *)
(***************************************************************************)

\* A state in which only the status or the clock changed.
LEMMA NetKept ==
    ASSUME NInv, UNCHANGED <<pc, lits, lit, inits, role, data, locals, network, name>>
    PROVE  NetInv'
  BY DEF locals, network, NInv, NetInv, NetType, NameOK, LinkInv, AgreeInv, Renamed, UnseenInv,
         Starting, Fresh, Seen, Taken, Interfered, Holders, TakenInv, Called

\* The control moves on, to a place where no more is asked.
LEMMA NetMoves ==
    ASSUME NInv, UNCHANGED <<lits, lit, inits, role, data, locals, network, name>>,
           \/ pc = "init_time" /\ pc' = "init_call"
           \/ pc = "time" /\ pc' = "call"
           \/ pc = "loop" /\ pc' = "check"
    PROVE  NetInv'
<1> USE DEF locals, network, NInv, NetInv
<1>1. NetType'
  BY DEF NetType, NameOK
<1>2. LinkInv'
  BY DEF LinkInv
<1>3. AgreeInv'
  BY DEF AgreeInv, Renamed
<1>4. UnseenInv'
  BY DEF UnseenInv, Starting, Fresh, Seen, Taken
<1>5. TakenInv'
  BY DEF TakenInv, Starting, Called, Taken
<1> QED
  BY <1>1, <1>2, <1>3, <1>4, <1>5

\* Steps without accounts are the same in the model.
LEMMA SameStepFollowed ==
    ASSUME NInv, SameStep
    PROVE  Next /\ NetInv'
<1>1. Next
  BY DEF SameStep, Next
<1> USE DEF locals, network, clock
<1>2. CASE RequireFails \/ AssertFails \/ ExitLoop \/ Ended
  BY <1>1, <1>2, NetKept DEF SameStep, RequireFails, AssertFails, ExitLoop, Ended, Prune, Fail, vars
<1>3. CASE Continue
  BY <1>1, <1>3, NetMoves DEF SameStep, Continue, At
<1>4. CASE InitTime
  BY <1>1, <1>4, NetKept, NetMoves DEF SameStep, InitTime, At, UpdateGlobal, Prune
<1>5. CASE StepTime
  BY <1>1, <1>5, NetKept, NetMoves DEF SameStep, StepTime, At, UpdateGlobal, Prune
<1> QED
  BY <1>2, <1>3, <1>4, <1>5 DEF SameStep

\* The literals have names that map_constants can choose for them.
LEMMA LearnLiteralFollowed ==
    ASSUME CutOffMet, NInv, LearnLiteral
    PROVE  Next /\ NetInv'
<1> DEFINE l == lits + 1
           a == name[LiteralAt[l]]
<1> USE DEF locals, network, clock
<1>1. l \in Literals /\ lits \in Nat
  BY DomainAssumption DEF LearnLiteral, NInv, SafeInv, TypeInv, TypeOK, Literals
<1>2. LiteralAt[l] \in Fixed \ {Nobody}
  BY <1>1 DEF CutOffMet, NetworkOK, Fixed
<1>3. a = FixedName[LiteralAt[l]] /\ LiteralAt[l] \in DOMAIN name
  BY <1>2 DEF NInv, NetInv, NetType, NameOK
<1>4. a \in NdRange(1, implicit_count)
  BY <1>2, <1>3, FixedNames, DomainLayout DEF CutOffMet
<1>5. ASSUME NEW m \in 1 .. lits PROVE lit[m] /= a
  <2>1. m \in Literals /\ m <= lits /\ m /= l
    BY <1>1, DomainAssumption DEF Literals
  <2>2. lit[m] = name[LiteralAt[m]] /\ LiteralAt[m] \in DOMAIN name
    BY <2>1 DEF NInv, NetInv, NetType, LinkInv, NameOK, Fixed
  <2>3. LiteralAt[m] /= LiteralAt[l]
    BY <1>1, <2>1 DEF CutOffMet, NetworkOK
  <2> QED
    BY <1>3, <2>2, <2>3 DEF NInv, NetInv, NetType, NameOK
<1>6. MapConstant
  BY <1>4, <1>5 DEF LearnLiteral, MapConstant
<1>7. lit' = [lit EXCEPT ![l] = a] /\ lits' = l
  BY DEF LearnLiteral
<1>8. \A m \in Literals : m <= lits' => lit'[m] = name[LiteralAt[m]]
  <2> SUFFICES ASSUME NEW m \in Literals, m <= l PROVE lit'[m] = name[LiteralAt[m]]
    BY <1>7
  <2>1. lit \in [Literals -> Implicit]
    BY DEF NInv, SafeInv, TypeInv, TypeOK
  <2>2. CASE m = l
    BY <1>1, <1>7, <2>1, <2>2
  <2>3. CASE m /= l
    <3>1. m <= lits
      BY <1>1, <2>3 DEF Literals
    <3>2. lit'[m] = lit[m]
      BY <1>7, <2>1, <2>3
    <3> QED
      BY <3>1, <3>2 DEF NInv, NetInv, LinkInv
  <2> QED
    BY <2>2, <2>3
<1>9. UNCHANGED <<pc, inits, role, data, sender, args, holder, book, caller, params, name>>
  BY DEF LearnLiteral
<1> HIDE DEF l, a
<1>10. NetType' /\ AgreeInv'
  BY <1>9 DEF NInv, NetInv, NetType, NameOK, AgreeInv, Renamed
<1>11. LinkInv'
  BY <1>8, <1>9 DEF NInv, NetInv, LinkInv
<1>12. UnseenInv' /\ TakenInv'
  BY <1>9 DEF NInv, NetInv, UnseenInv, Starting, Fresh, Seen, Taken, Interfered, Holders, TakenInv, Called
<1> QED
  BY <1>6, <1>10, <1>11, <1>12 DEF NetInv, Next

\* Before the contracts run, every role is held by nobody.
LEMMA DeployFollowed ==
    ASSUME CutOffMet, NInv, Deploy
    PROVE  Next /\ NetInv'
<1> USE DEF locals, network, clock
<1>1. /\ pc = "literals" /\ pc' = "init_time"
      /\ role' = [r \in Roles |-> 0]
      /\ UNCHANGED <<lits, lit, inits, data, sender, args, holder, book, caller, params, name>>
  BY DEF Deploy, AssignAddresses, At
<1>2. name[Nobody] = 0
  BY FixedNames DEF CutOffMet, NInv, NetInv, NetType, NameOK, Fixed
<1>3. LinkInv'
  BY <1>1, <1>2 DEF NInv, NetInv, LinkInv
<1>4. NetType' /\ AgreeInv'
  BY <1>1 DEF NInv, NetInv, NetType, NameOK, AgreeInv, Renamed
<1>5. UnseenInv' /\ TakenInv'
  BY <1>1 DEF NInv, NetInv, UnseenInv, Starting, Fresh, Seen, Taken, TakenInv, Called
<1> QED
  BY <1>3, <1>4, <1>5 DEF NetInv, Next, Deploy

\* Whoever gets a role has a name that the body of the model can assign.
LEMMA SetHolderFollowed ==
    ASSUME CutOffMet, NInv, SetHolder
    PROVE  Next /\ NetInv'
<1> USE DEF locals, network, clock
<1>1. PICK r \in Roles, a \in Nameable :
         holder' = [holder EXCEPT ![r] = a] /\ role' = [role EXCEPT ![r] = name[a]]
  BY DEF SetHolder
<1>2. /\ pc = "body"
      /\ UNCHANGED <<pc, lits, lit, inits, data, sender, args, book, caller, params, name>>
  BY DEF SetHolder, At
<1>3. a \in DOMAIN name /\ name[a] \in InScope
  BY <1>2, NameableInScope
<1>4. AssignRole
  BY <1>1, <1>3 DEF SetHolder, AssignRole
<1>5. NetType'
  <2>1. holder' \in [Roles -> Accounts]
    BY <1>1, <1>3 DEF NInv, NetInv, NetType, NameOK
  <2> QED
    BY <1>2, <2>1 DEF NInv, NetInv, NetType, NameOK
<1>6. \A q \in Roles : holder'[q] \in DOMAIN name /\ role'[q] = name[holder'[q]]
  <2>1. holder \in [Roles -> Accounts] /\ role \in [Roles -> Byte]
    BY DEF NInv, NetInv, NetType, SafeInv, TypeInv, TypeOK
  <2> QED
    BY <1>1, <1>3, <2>1 DEF NInv, NetInv, LinkInv
<1>7. LinkInv'
  BY <1>2, <1>6 DEF NInv, NetInv, LinkInv
<1>8. AgreeInv' /\ UnseenInv' /\ TakenInv'
  BY <1>2 DEF NInv, NetInv, AgreeInv, Renamed, UnseenInv, Starting, Fresh, Seen, Taken, TakenInv, Called
<1> QED
  BY <1>4, <1>5, <1>7, <1>8 DEF NetInv, Next

\* A body writes the entry of the names of the accounts.
LEMMA WriteBookFollowed ==
    ASSUME CutOffMet, NInv, WriteBook
    PROVE  Next /\ NetInv'
<1> USE DEF locals, network, clock
<1>1. PICK e \in [1 .. Depth -> Nameable], v \in Values :
         book' = [book EXCEPT ![e] = v] /\ data' = [data EXCEPT ![Renamed(name, e)] = v]
  BY DEF WriteBook
<1>2. /\ pc = "body"
      /\ UNCHANGED <<pc, lits, lit, inits, role, sender, args, holder, caller, params, name>>
  BY DEF WriteBook, At
<1> DEFINE k == Renamed(name, e)
<1>3. NameOK(name) /\ book \in [Entries -> Values] /\ data \in [Keys -> Values]
  BY DEF NInv, NetInv, NetType, SafeInv, TypeInv, TypeOK
<1>4. \A i \in 1 .. Depth : e[i] \in DOMAIN name /\ name[e[i]] \in InScope
  BY <1>2, NameableInScope
<1>5. e \in [1 .. Depth -> DOMAIN name]
  BY <1>4
<1>6. k \in Keys /\ e \in Entries /\ \A i \in 1 .. Depth : k[i] = name[e[i]]
  BY <1>3, <1>5, RenamedKeys
<1>7. WriteMap
  <2>1. k \in [1 .. Depth -> InScope]
    BY <1>4, <1>6 DEF Renamed
  <2>2. \A i \in 1 .. Depth : count >= k[i]
    BY <1>6, DomainLayout DEF Keys, Addr
  <2>3. data' = [x \in Keys |-> IF x = k THEN v ELSE data[x]]
    BY <1>1, <1>3, <1>6
  <2> QED
    BY <2>1, <2>2, <2>3 DEF WriteBook, WriteMap
<1>8. NetType'
  BY <1>1, <1>2, <1>3 DEF NInv, NetInv, NetType, NameOK
<1>9. LinkInv'
  BY <1>2 DEF NInv, NetInv, LinkInv
<1>10. AgreeInv'
  <2> SUFFICES ASSUME NEW f \in [1 .. Depth -> DOMAIN name]
               PROVE  data'[Renamed(name, f)] = book'[f]
    BY <1>2 DEF AgreeInv, Renamed
  <2>1. Renamed(name, f) \in Keys /\ f \in Entries
    BY <1>3, RenamedKeys
  <2>2. CASE f = e
    BY <1>1, <1>3, <1>6, <2>1, <2>2
  <2>3. CASE f /= e
    <3>1. Renamed(name, f) /= k
      BY <1>3, <1>5, <2>3, RenamedKeys
    <3>2. data'[Renamed(name, f)] = data[Renamed(name, f)] /\ book'[f] = book[f]
      BY <1>1, <1>3, <2>1, <2>3, <3>1
    <3> QED
      BY <3>2 DEF NInv, NetInv, AgreeInv
  <2> QED
    BY <2>2, <2>3
<1>11. \A f \in Entries : ~ Seen(f) => book'[f] = book[f]
  BY <1>1, <1>3, <1>4 DEF Seen
<1>12. \A x \in Keys : (\E i \in 1 .. Depth : x[i] \notin Taken(name)) => data'[x] = data[x]
  <2> SUFFICES ASSUME NEW x \in Keys, x = k PROVE \A i \in 1 .. Depth : x[i] \in Taken(name)
    BY <1>1, <1>3
  <2> QED
    BY <1>4, <1>6 DEF Taken
<1> HIDE DEF k
<1>13. Fresh => Fresh'
  BY <1>2, <1>11, <1>12 DEF Fresh, Seen, Taken
<1>14. UnseenInv'
  BY <1>2, <1>11, <1>13 DEF NInv, NetInv, UnseenInv, Starting, Seen
<1>15. TakenInv'
  BY <1>2 DEF NInv, NetInv, TakenInv, Starting, Called, Taken
<1> QED
  BY <1>7, <1>8, <1>9, <1>10, <1>14, <1>15 DEF NetInv, Next

\* A call returns in the network as in the model.
LEMMA EndCallFollowed ==
    ASSUME CutOffMet, NInv, EndCall
    PROVE  Next /\ NetInv'
<1> USE DEF locals, network, clock
<1>1. /\ pc = "body"
      /\ inits' = (IF inits < RootCt THEN inits + 1 ELSE inits)
      /\ pc' = (IF inits + 1 < RootCt THEN "init_time" ELSE "loop")
      /\ UNCHANGED <<lits, lit, role, data, holder, book, name>>
  BY DEF EndCall, Return, At
<1>2. inits \in 0 .. RootCt /\ RootCt \in Nat
  BY RunAssumption, DomainAssumption DEF NInv, SafeInv, TypeInv, TypeOK
<1>3. NetType' /\ AgreeInv'
  BY <1>1 DEF NInv, NetInv, NetType, NameOK, AgreeInv, Renamed
<1>4. LinkInv'
  BY <1>1 DEF NInv, NetInv, LinkInv
<1>5. /\ Starting' => Starting
      /\ Starting' <=> pc' \in {"literals", "init_time", "init_call"}
      /\ Starting' => Called' = Called
  BY <1>1, <1>2 DEF Starting, Called
<1>6. UnseenInv'
  BY <1>1, <1>5 DEF NInv, NetInv, UnseenInv, Fresh, Seen, Taken
<1>7. TakenInv'
  BY <1>1, <1>5 DEF NInv, NetInv, TakenInv, Taken
<1> QED
  BY <1>3, <1>4, <1>6, <1>7 DEF NetInv, Next, EndCall

\* A violation of the invariant anywhere in the network is reported by the
\* model: through the names of the accounts in the entry or, if one of them has
\* no name, through the extra client.
LEMMA AuditFollowed ==
    ASSUME CutOffMet, NInv, Audit
    PROVE  Next /\ NetInv'
<1> USE DEF locals, network, clock
<1>1. pc = "check" /\ UNCHANGED <<lits, lit, inits, role, data, sender, args, network, name>>
  BY DEF Audit, At, Fail
<1>2. CASE Rule = "checked" /\ \E e \in Entries : Interfered(e) /\ book[e] \notin InvValues
  <2>1. PICK e \in Entries : Interfered(e) /\ book[e] \notin InvValues
    BY <1>2
  <2>2. Fail
    BY <1>2 DEF Audit
  <2>3. \E k \in Keys : Abstract(k) /\ data[k] \notin InvValues
    <3>1. CASE Seen(e)
      <4>1. e \in [1 .. Depth -> DOMAIN name]
        BY <3>1 DEF Seen, Entries
      <4>2. NameOK(name) /\ \A r \in Roles : holder[r] \in DOMAIN name /\ role[r] = name[holder[r]]
        BY DEF NInv, NetInv, NetType, LinkInv
      <4>3. Renamed(name, e) \in Keys
        BY <4>1, <4>2, RenamedKeys
      <4>4. Abstract(Renamed(name, e))
        BY <2>1, <4>1, <4>2, InterferedAbstract DEF CutOffMet
      <4>5. data[Renamed(name, e)] = book[e]
        BY <4>1 DEF NInv, NetInv, AgreeInv
      <4> QED
        BY <2>1, <4>3, <4>4, <4>5
    <3>2. CASE ~ Seen(e)
      <4> DEFINE w == [i \in 1 .. Depth |-> max_sender]
      <4>1. /\ w \in Keys
            /\ Abstract(w)
            /\ \E i \in 1 .. Depth : w[i] >= implicit_count /\ w[i] \notin Taken(name)
        BY <1>1, <1>2, WitnessKey
      <4>2. Fresh
        BY <1>2, <2>1, <3>2 DEF NInv, NetInv, UnseenInv
      <4> HIDE DEF w
      <4>3. book[e] = Zero /\ data[w] = Zero
        BY <3>2, <4>1, <4>2 DEF Fresh
      <4> QED
        BY <2>1, <4>1, <4>3
    <3> QED
      BY <3>1, <3>2
  <2>4. CheckInterference
    BY <1>2, <2>2, <2>3 DEF Audit, CheckInterference, Abstract, CutOffMet
  <2>5. pc' = pc
    BY <2>2 DEF Fail
  <2> QED
    BY <1>1, <2>4, <2>5, NetKept DEF Next
<1>3. CASE ~ (Rule = "checked" /\ \E e \in Entries : Interfered(e) /\ book[e] \notin InvValues)
  <2>1. CheckInterference /\ pc' = "apply"
    BY <1>3 DEF Audit, CheckInterference
  <2>2. NetType' /\ AgreeInv'
    BY <1>1, <2>1 DEF NInv, NetInv, NetType, NameOK, AgreeInv, Renamed
  <2>3. LinkInv'
    BY <1>1, <2>1 DEF NInv, NetInv, LinkInv
  <2>4. UnseenInv'
    BY <1>1, <1>3, <2>1
       DEF NInv, NetInv, UnseenInv, Starting, Fresh, Seen, Taken, Interfered, Holders
  <2>5. TakenInv'
    BY <1>1, <2>1 DEF NInv, NetInv, TakenInv, Starting, Called, Taken
  <2> QED
    BY <2>1, <2>2, <2>3, <2>4, <2>5 DEF NetInv, Next
<1> QED
  BY <1>2, <1>3

\* An account that may send a transaction has the name of a sender.
LEMMA CallersAreSenders ==
    ASSUME NetworkOK, NEW n, NameOK(n), NEW a \in DOMAIN n \ ({Nobody} \cup Deployed)
    PROVE  n[a] \in Senders
<1>1. CASE a \in Fixed
  BY <1>1, FixedNames DEF NameOK
<1>2. CASE a \notin Fixed
  BY <1>2, RepresentativeFacts DEF NameOK
<1> QED
  BY <1>1, <1>2

\* The model chooses the names of caller and arguments.
LEMMA ExecuteFollowed ==
    ASSUME CutOffMet, NInv, Execute
    PROVE  Next /\ NetInv'
<1> USE DEF locals, network, clock
<1>1. /\ pc = "call" /\ pc' = "body"
      /\ sender' = name[caller]
      /\ args' = [i \in DOMAIN params |-> name[params[i]]]
      /\ UNCHANGED <<lits, lit, inits, role, data, holder, book, caller, params, name>>
  BY DEF Execute, At
<1>2. name[caller] \in Senders
  BY <1>1, CallersAreSenders DEF CutOffMet, NInv, NetInv, NetType, LinkInv
<1>3. params \in [1 .. MethodArgs -> Accounts]
  BY <1>1 DEF NInv, NetInv, NetType
<1>4. args' \in [1 .. MethodArgs -> RawAddress]
  <2>1. \A i \in 1 .. MethodArgs : name[params[i]] \in RawAddress
    BY <1>1, <1>3 DEF NInv, NetInv, NetType, NameOK, LinkInv
  <2> QED
    BY <1>1, <1>3, <2>1
<1>5. BeginTransaction
  BY <1>1, <1>2, <1>4 DEF Execute, BeginTransaction, ChooseLocals
<1>6. NetType' /\ AgreeInv'
  BY <1>1 DEF NInv, NetInv, NetType, NameOK, AgreeInv, Renamed
<1>7. LinkInv'
  BY <1>1 DEF NInv, NetInv, LinkInv
<1>8. ~ Starting'
  BY <1>1 DEF NInv, NetInv, UnseenInv, Starting
<1>9. UnseenInv' /\ TakenInv'
  BY <1>1, <1>8 DEF NInv, NetInv, UnseenInv, Fresh, Seen, Taken, TakenInv
<1> QED
  BY <1>5, <1>6, <1>7, <1>9 DEF NetInv, Next

\* A constructor is called by, and with, accounts that get a representative
\* which nobody has used.
LEMMA ConstructFollowed ==
    ASSUME CutOffMet, NInv, Construct
    PROVE  Next /\ NetInv'
<1> USE DEF locals, network, clock
<1>1. PICK c \in Accounts, p \in [1 .. CtorArgs -> Accounts] :
         /\ c \notin {Nobody} \cup Deployed /\ caller' = c /\ params' = p
         /\ name' = Extended(name, Involved(c, p))
         /\ sender' = name'[c]
         /\ args' = [i \in 1 .. CtorArgs |-> name'[p[i]]]
  BY DEF Construct, Arrives
<1>2. /\ pc = "init_call" /\ pc' = "body"
      /\ book' = (IF inits = 0 THEN [e \in Entries |-> Zero] ELSE book)
      /\ data' = (IF inits = 0 THEN [k \in Keys |-> Zero] ELSE data)
      /\ UNCHANGED <<lits, lit, inits, role, holder>>
  BY DEF Construct, At
<1>3. Starting /\ Fresh /\ Starting'
  BY <1>2 DEF NInv, NetInv, UnseenInv, Starting
<1> DEFINE who == Involved(c, p)
<1>4. CtorArgs \in Nat
  BY RunAssumption
<1>5. /\ who \subseteq Accounts /\ IsFiniteSet(who) /\ Cardinality(who) <= 1 + CtorArgs
      /\ c \in who /\ \A i \in 1 .. CtorArgs : p[i] \in who
  BY <1>4, InvolvedSize
<1>6. Cardinality(who) <= Cardinality(Representatives \ Taken(name))
  <2>1. Cardinality(Representatives \ Taken(name)) >= 1 + CtorArgs
    BY <1>2, <1>3, ConstructorFits
  <2>2. IsFiniteSet(Representatives \ Taken(name))
    BY RepresentativeFacts, FS_Subset
  <2>3. Cardinality(who) \in Nat /\ Cardinality(Representatives \ Taken(name)) \in Nat
    BY <1>5, <2>2, FS_CardinalityType
  <2> QED
    BY <1>4, <1>5, <2>1, <2>3
<1>7. NameOK(name)
  BY DEF NInv, NetInv, NetType
<1>8. /\ NameOK(name')
      /\ DOMAIN name' = DOMAIN name \cup who
      /\ \A a \in DOMAIN name : name'[a] = name[a]
      /\ \A a \in who \ DOMAIN name : name'[a] \in Representatives \ Taken(name)
  <2>1. NetworkOK
    BY DEF CutOffMet
  <2> QED
    BY <1>1, <1>5, <1>6, <1>7, <2>1, ExtendedNames
<1> HIDE DEF who
<1>9. BeginConstructor
  <2>1. sender' \in Senders
    BY <1>1, <1>5, <1>8, CallersAreSenders DEF CutOffMet
  <2>2. \A i \in 1 .. CtorArgs : name'[p[i]] \in RawAddress
    BY <1>5, <1>8 DEF NameOK
  <2>3. args' \in [1 .. CtorArgs -> RawAddress]
    BY <1>1, <2>2
  <2> QED
    BY <2>1, <2>3 DEF Construct, BeginConstructor, ChooseLocals
<1>10. NetType'
  <2>1. book' \in [Entries -> Values]
    BY <1>2, RunAssumption DEF NInv, NetInv, NetType
  <2>2. holder' \in [Roles -> Accounts]
    BY <1>2 DEF NInv, NetInv, NetType
  <2>3. NameOK(name)'
    BY <1>8 DEF NameOK
  <2> QED
    BY <1>2, <2>1, <2>2, <2>3 DEF NetType
<1>11. LinkInv'
  <2>1. \A r \in Roles : holder'[r] \in DOMAIN name' /\ role'[r] = name'[holder'[r]]
    BY <1>2, <1>8 DEF NInv, NetInv, LinkInv
  <2>2. \A l \in Literals : l <= lits' => lit'[l] = name'[LiteralAt[l]]
    <3>1. \A l \in Literals : LiteralAt[l] \in DOMAIN name
      BY <1>7 DEF NameOK, Fixed
    <3> QED
      BY <1>2, <1>8, <3>1 DEF NInv, NetInv, LinkInv
  <2>3. caller' \in DOMAIN name' \ ({Nobody} \cup Deployed)
        /\ \A i \in DOMAIN params' : params'[i] \in DOMAIN name'
    BY <1>1, <1>5, <1>8
  <2>4. sender' = name'[caller'] /\ args' = [i \in DOMAIN params' |-> name'[params'[i]]]
    BY <1>1
  <2> QED
    BY <1>2, <2>1, <2>2, <2>3, <2>4 DEF LinkInv
<1>12. \A a \in DOMAIN name' \ DOMAIN name : name'[a] >= implicit_count /\ name'[a] \notin Taken(name)
  BY <1>8, RepresentativeFacts
<1>13. AgreeInv'
  <2> SUFFICES ASSUME NEW e \in [1 .. Depth -> DOMAIN name']
               PROVE  data'[Renamed(name', e)] = book'[e]
    BY DEF AgreeInv, Renamed
  <2>1. /\ Renamed(name', e) \in Keys /\ e \in Entries
        /\ \A i \in 1 .. Depth : Renamed(name', e)[i] = name'[e[i]]
    BY <1>8, RenamedKeys
  <2>2. CASE inits = 0
    BY <1>2, <2>1, <2>2
  <2>3. CASE inits /= 0 /\ Seen(e)
    <3>1. e \in [1 .. Depth -> DOMAIN name]
      BY <2>3 DEF Seen
    <3>2. Renamed(name', e) = Renamed(name, e)
      BY <1>8, <3>1 DEF Renamed
    <3> QED
      BY <1>2, <2>3, <3>1, <3>2 DEF NInv, NetInv, AgreeInv
  <2>4. CASE inits /= 0 /\ ~ Seen(e)
    <3>1. PICK i \in 1 .. Depth : e[i] \notin DOMAIN name
      BY <2>4 DEF Seen
    <3>2. Renamed(name', e)[i] >= implicit_count /\ Renamed(name', e)[i] \notin Taken(name)
      BY <1>12, <2>1, <3>1
    <3>3. book[e] = Zero /\ data[Renamed(name', e)] = Zero
      BY <1>3, <2>1, <2>4, <3>2 DEF Fresh
    <3> QED
      BY <1>2, <2>4, <3>3
  <2> QED
    BY <2>2, <2>3, <2>4
<1>14. Fresh'
  <2>1. \A e \in Entries : ~ Seen(e)' => book'[e] = Zero
    BY <1>2, <1>3, <1>8 DEF Fresh, Seen
  <2>2. Taken(name) \subseteq Taken(name')
    BY <1>8 DEF Taken
  <2>3. \A k \in Keys :
          (\E i \in 1 .. Depth : k[i] >= implicit_count /\ k[i] \notin Taken(name'))
              => data'[k] = Zero
    BY <1>2, <1>3, <2>2 DEF Fresh
  <2> QED
    BY <2>1, <2>3 DEF Fresh, Taken
<1>15. UnseenInv'
  BY <1>2, <1>3, <1>14 DEF UnseenInv
<1>16. TakenInv'
  <2> DEFINE T == Taken(name) \cap Representatives
             N == {name'[a] : a \in who}
  <2>1. IsFiniteSet(T)
    BY RepresentativeFacts, FS_Subset
  <2>2. IsFiniteSet(N) /\ Cardinality(N) <= Cardinality(who)
    <3>1. [a \in who |-> name'[a]] \in Surjection(who, N)
      BY DEF Surjection
    <3> QED
      BY <1>5, <3>1, FS_Surjection
  <2>3. Taken(name') \cap Representatives \subseteq T \cup N
    BY <1>8 DEF Taken
  <2> HIDE DEF T, N
  <2>4. /\ IsFiniteSet(T \cup N)
        /\ Cardinality(T \cup N) = Cardinality(T) + Cardinality(N) - Cardinality(T \cap N)
    BY <2>1, <2>2, FS_Union
  <2>5. Cardinality(Taken(name') \cap Representatives) <= Cardinality(T \cup N)
        /\ IsFiniteSet(Taken(name') \cap Representatives)
    BY <2>3, <2>4, FS_Subset
  <2>6. IsFiniteSet(T \cap N)
    BY <2>1, FS_Subset
  <2>7. /\ Cardinality(T) \in Nat /\ Cardinality(N) \in Nat /\ Cardinality(T \cap N) \in Nat
        /\ Cardinality(T \cup N) \in Nat /\ Cardinality(who) \in Nat
        /\ Cardinality(Taken(name') \cap Representatives) \in Nat
    BY <1>5, <2>1, <2>2, <2>4, <2>5, <2>6, FS_CardinalityType
  <2>8. Cardinality(T) <= inits * (1 + CtorArgs)
    BY <1>2, <1>3 DEF NInv, NetInv, TakenInv, Called, T
  <2>9. inits \in Nat
    BY RunAssumption, DomainAssumption DEF NInv, SafeInv, TypeInv, TypeOK
  <2>10. inits * (1 + CtorArgs) + (1 + CtorArgs) = (inits + 1) * (1 + CtorArgs)
         /\ inits * (1 + CtorArgs) \in Nat
    BY <1>4, <2>9
  <2>11. Cardinality(Taken(name') \cap Representatives) <= (inits + 1) * (1 + CtorArgs)
    BY <1>4, <1>5, <2>2, <2>4, <2>5, <2>7, <2>8, <2>10
  <2> QED
    BY <1>2, <2>11 DEF TakenInv, Called, Taken
<1> QED
  BY <1>9, <1>10, <1>11, <1>13, <1>15, <1>16 DEF NetInv, Next

\* Interference can give the representatives of the accounts in the next
\* transaction what the network has in their entries.
LEMMA NextTransactionFollowed ==
    ASSUME CutOffMet, NInv, NextTransaction
    PROVE  Next /\ NetInv'
<1> USE DEF locals, network, clock
<1>1. PICK c \in Accounts, p \in [1 .. MethodArgs -> Accounts] :
         /\ c \notin {Nobody} \cup Deployed /\ caller' = c /\ params' = p
         /\ name' = Extended(Remembered, Involved(c, p))
  BY DEF NextTransaction, Arrives
<1>2. /\ pc = "apply" /\ pc' = "time"
      /\ data' = Refreshed(name')
      /\ UNCHANGED <<status, lits, lit, inits, role, sender, args, clock, holder, book>>
  BY DEF NextTransaction, At
<1> DEFINE who == Involved(c, p)
<1>3. MethodArgs \in Nat
  BY DomainAssumption
<1>4. /\ who \subseteq Accounts /\ IsFiniteSet(who) /\ Cardinality(who) <= 1 + MethodArgs
      /\ c \in who /\ \A i \in 1 .. MethodArgs : p[i] \in who
  BY <1>3, InvolvedSize
<1>5. /\ NameOK(Remembered)
      /\ DOMAIN Remembered = Fixed \cup Holders
      /\ \A a \in Fixed \cup Holders : Remembered[a] = name[a]
      /\ Cardinality(Representatives \ Taken(Remembered)) >= client_ct
  BY <1>2, RememberedNames
<1>6. Cardinality(who) <= Cardinality(Representatives \ Taken(Remembered))
  <2>1. IsFiniteSet(Representatives \ Taken(Remembered))
    BY RepresentativeFacts, FS_Subset
  <2>2. Cardinality(who) \in Nat /\ Cardinality(Representatives \ Taken(Remembered)) \in Nat
    BY <1>4, <2>1, FS_CardinalityType
  <2> QED
    BY <1>3, <1>4, <1>5, <2>2 DEF client_ct
<1>7. /\ NameOK(name')
      /\ DOMAIN name' = Fixed \cup Holders \cup who
      /\ \A a \in Fixed \cup Holders : name'[a] = name[a]
  <2>1. NetworkOK
    BY DEF CutOffMet
  <2>2. /\ NameOK(Extended(Remembered, who))
        /\ DOMAIN Extended(Remembered, who) = DOMAIN Remembered \cup who
        /\ \A a \in DOMAIN Remembered : Extended(Remembered, who)[a] = Remembered[a]
    <3> HIDE DEF who
    <3> QED
      BY <1>4, <1>5, <1>6, <2>1, ExtendedNames
  <2> QED
    BY <1>1, <1>5, <2>2
<1> HIDE DEF who
<1>8. \A r \in Roles : holder[r] \in DOMAIN name' /\ role[r] = name'[holder[r]]
  BY <1>7 DEF NInv, NetInv, LinkInv, Holders
<1>9. ASSUME NEW e \in [1 .. Depth -> DOMAIN name']
      PROVE  /\ Renamed(name', e) \in Keys /\ e \in Entries
             /\ Abstract(Renamed(name', e)) <=> Interfered(e)
             /\ \A f \in [1 .. Depth -> DOMAIN name'] :
                    Renamed(name', f) = Renamed(name', e) => f = e
  <2>1. NetworkOK
    BY DEF CutOffMet
  <2>2. Abstract(Renamed(name', e)) <=> Interfered(e)
    BY <1>7, <1>8, <2>1, InterferedAbstract
  <2> QED
    BY <1>7, <2>2, RenamedKeys
<1>10. /\ data \in [Keys -> Values] /\ book \in [Entries -> Values]
       /\ InvValues \subseteq Values /\ Zero \in Values
  BY RunAssumption DEF NInv, NetInv, NetType, SafeInv, TypeInv, TypeOK
<1>11. ASSUME NEW e \in [1 .. Depth -> DOMAIN name'], Abstract(Renamed(name', e))
       PROVE  data'[Renamed(name', e)] = book[e]
  <2> DEFINE k == Renamed(name', e)
             f == CHOOSE g \in [1 .. Depth -> DOMAIN name'] : Renamed(name', g) = k
  <2>1. f \in [1 .. Depth -> DOMAIN name'] /\ Renamed(name', f) = k
    OBVIOUS
  <2>2. f = e
    BY <1>9, <2>1
  <2>3. k \in Keys /\ Abstract(k) /\ \E g \in [1 .. Depth -> DOMAIN name'] : Renamed(name', g) = k
    BY <1>9, <1>11
  <2>4. Refreshed(name')[k] = book[f]
    BY <2>3 DEF Refreshed
  <2> QED
    BY <1>2, <2>2, <2>4
<1>12. ASSUME NEW k \in Keys, Abstract(k),
              ~ \E e \in [1 .. Depth -> DOMAIN name'] : Renamed(name', e) = k
       PROVE  data'[k] \in Values /\ (Rule /= "none" => data'[k] \in InvValues)
  <2>1. data'[k] = IF Rule = "none" THEN Zero ELSE CHOOSE v \in InvValues : TRUE
    BY <1>2, <1>12 DEF Refreshed
  <2>2. Rule /= "none" => InvValues /= {}
    BY DomainAssumption DEF CutOffMet
  <2> QED
    BY <1>10, <2>1, <2>2
<1>13. \A k \in Keys : ~ Abstract(k) => data'[k] = data[k]
  BY <1>2 DEF Refreshed
<1>14. Rule /= "none" => \A e \in Entries : Interfered(e) => book[e] \in InvValues
  BY <1>2, DomainAssumption DEF NInv, NetInv, UnseenInv, CutOffMet
<1>15. ASSUME NEW k \in Keys, Abstract(k)
       PROVE  data'[k] \in Values /\ (Rule /= "none" => data'[k] \in InvValues)
  <2>1. CASE \E e \in [1 .. Depth -> DOMAIN name'] : Renamed(name', e) = k
    <3>1. PICK e \in [1 .. Depth -> DOMAIN name'] : Renamed(name', e) = k
      BY <2>1
    <3>2. data'[k] = book[e] /\ e \in Entries /\ Interfered(e)
      BY <1>9, <1>11, <1>15, <3>1
    <3> QED
      BY <1>10, <1>14, <3>2
  <2> QED
    BY <1>12, <1>15, <2>1
<1>16. ApplyInterference
  <2>1. data' \in [Keys -> Values]
    <3>1. \A k \in Keys : data'[k] \in Values
      BY <1>10, <1>13, <1>15
    <3> QED
      BY <1>2, <3>1 DEF Refreshed
  <2>2. Rule = "none" \/ \A k \in Keys : Abstract(k) => data'[k] \in InvValues
    BY <1>15
  <2> QED
    BY <1>2, <1>13, <2>1, <2>2 DEF NextTransaction, ApplyInterference, CutOffMet
<1>17. NetType'
  <2>1. NameOK(name)'
    BY <1>7 DEF NameOK
  <2> QED
    BY <1>1, <1>2, <2>1 DEF NInv, NetInv, NetType
<1>18. LinkInv'
  <2>1. \A l \in Literals : l <= lits' => lit'[l] = name'[LiteralAt[l]]
    <3>1. \A l \in Literals : name'[LiteralAt[l]] = name[LiteralAt[l]]
      BY <1>7 DEF Fixed
    <3> QED
      BY <1>2, <3>1 DEF NInv, NetInv, LinkInv
  <2>2. caller' \in DOMAIN name' \ ({Nobody} \cup Deployed)
        /\ \A i \in DOMAIN params' : params'[i] \in DOMAIN name'
    BY <1>1, <1>4, <1>7
  <2> QED
    BY <1>2, <1>8, <2>1, <2>2 DEF LinkInv
<1>19. AgreeInv'
  <2> SUFFICES ASSUME NEW e \in [1 .. Depth -> DOMAIN name']
               PROVE  data'[Renamed(name', e)] = book[e]
    BY <1>2 DEF AgreeInv, Renamed
  <2>1. CASE Abstract(Renamed(name', e))
    BY <1>11, <2>1
  <2>2. CASE ~ Abstract(Renamed(name', e))
    <3>1. \A i \in 1 .. Depth : e[i] \in Fixed \cup Holders
      BY <1>9, <2>2 DEF Interfered
    <3>2. Fixed \cup Holders \subseteq DOMAIN name
      BY DEF NInv, NetInv, NetType, NameOK, LinkInv, Holders
    <3>3. e \in [1 .. Depth -> DOMAIN name] /\ Renamed(name', e) = Renamed(name, e)
      BY <1>7, <3>1, <3>2 DEF Renamed
    <3>4. data[Renamed(name, e)] = book[e]
      BY <3>3 DEF NInv, NetInv, AgreeInv
    <3> QED
      BY <1>9, <1>13, <2>2, <3>3, <3>4
  <2> QED
    BY <2>1, <2>2
<1>20. ~ Starting /\ ~ Starting'
  BY <1>2 DEF NInv, NetInv, UnseenInv, Starting
<1>21. UnseenInv'
  <2>1. ASSUME Rule = "checked", NEW e \in Entries, ~ Seen(e)' PROVE book'[e] \in InvValues
    <3>1. PICK i \in 1 .. Depth : e[i] \notin DOMAIN name'
      BY <2>1 DEF Seen
    <3>2. Interfered(e)
      BY <1>7, <3>1 DEF Interfered
    <3> QED
      BY <1>2, <1>14, <2>1, <3>2
  <2> QED
    BY <1>2, <1>20, <2>1 DEF UnseenInv, Starting
<1>22. TakenInv'
  BY <1>20 DEF TakenInv
<1> QED
  BY <1>16, <1>17, <1>18, <1>19, <1>21, <1>22 DEF NetInv, Next

-----------------------------------------------------------------------------
\* The network and the model start alike.
LEMMA NetworkStarts ==
    ASSUME CutOffMet, NInit
    PROVE  Init /\ NInv
<1>1. Init
  <2>1. role \in [Roles -> {0, 255}]
    BY DEF NInit
  <2>2. data \in {[k \in Keys |-> v] : v \in Values}
    BY RunAssumption DEF NInit
  <2> QED
    BY <2>1, <2>2 DEF NInit, Init
<1>2. SafeInv
  BY <1>1, SafeInit
<1>3. NetworkOK
  BY DEF CutOffMet
<1>4. NameOK(name)
  <2>1. name \in [Fixed -> RawAddress] /\ DOMAIN name = Fixed
    BY <1>3, FixedNames, RepresentativeFacts DEF NInit
  <2> QED
    BY <1>3, <2>1, FixedNames DEF NInit, NameOK
<1>5. Nobody \in Fixed /\ Nobody \in Accounts /\ FixedName[Nobody] = 0
  BY <1>3, FixedNames DEF Fixed, NetworkOK
<1>6. NetType
  BY <1>4, <1>5, RunAssumption DEF NInit, NetType
<1>7. LinkInv
  <2>1. \A r \in Roles : holder[r] \in DOMAIN name /\ role[r] = name[holder[r]]
    BY <1>4, <1>5 DEF NInit, NameOK
  <2>2. \A l \in Literals : ~ (l <= lits)
    BY DomainAssumption DEF NInit, Literals
  <2> QED
    BY <2>1, <2>2 DEF NInit, LinkInv
<1>8. AgreeInv
  <2> SUFFICES ASSUME NEW e \in [1 .. Depth -> DOMAIN name]
               PROVE  data[Renamed(name, e)] = book[e]
    BY DEF AgreeInv
  <2>1. Renamed(name, e) \in Keys /\ e \in Entries
    BY <1>4, RenamedKeys
  <2> QED
    BY <2>1 DEF NInit
<1>9. Fresh /\ Starting
  BY RunAssumption, DomainAssumption DEF NInit, Fresh, Starting
<1>10. UnseenInv
  BY <1>9 DEF NInit, UnseenInv
<1>11. TakenInv
  <2>1. \A a \in Fixed : FixedName[a] \notin Representatives
    BY <1>3, FixedNames, RepresentativeFacts
  <2>2. DOMAIN name = Fixed
    BY DEF NInit, FixedName
  <2>3. Taken(name) \cap Representatives = {}
    BY <2>1, <2>2 DEF NInit, Taken
  <2>4. Called * (1 + CtorArgs) = 0
    BY RunAssumption DEF NInit, Called
  <2> QED
    BY <2>3, <2>4, FS_EmptySet DEF TakenInv
<1> QED
  BY <1>1, <1>2, <1>6, <1>7, <1>8, <1>10, <1>11 DEF NInv, NetInv

\* Every step of the network is one of the model, or changes nothing in it.
LEMMA NetworkSteps ==
    ASSUME CutOffMet, NInv, [NNext]_nvars
    PROVE  [Next]_vars /\ NInv'
<1>1. [Next]_vars /\ NetInv'
  <2>1. CASE NNext
    BY <2>1, LearnLiteralFollowed, DeployFollowed, ConstructFollowed, SetHolderFollowed,
       WriteBookFollowed, EndCallFollowed, SameStepFollowed, AuditFollowed,
       NextTransactionFollowed, ExecuteFollowed DEF NNext
  <2>2. CASE UNCHANGED nvars
    BY <2>2, NetKept DEF nvars, vars, locals
  <2> QED
    BY <2>1, <2>2
<1>2. SafeInv'
  BY <1>1, SafeNext DEF NInv, CutOffMet
<1> QED
  BY <1>1, <1>2 DEF NInv

\* However many accounts there are, whatever they do is what the accounts of
\* the finite address domain do in some execution of run_model(): the sender
\* and the arguments of each transaction are given representatives of their
\* own, interference gives them the entries that the network has for them, and
\* an entry that breaks the checked invariant, whoever it belongs to, fails the
\* check of the model.  So an assertion that fails in the network, or an entry
\* that breaks the invariant between transactions, fails in the model.
THEOREM NetworkIsModelled == CutOffMet => (NSpec => Spec)
<1> SUFFICES ASSUME CutOffMet PROVE NSpec => Spec
  OBVIOUS
<1>1. NInit => Init /\ NInv
  BY NetworkStarts
<1>2. NInv /\ [NNext]_nvars => [Next]_vars /\ NInv'
  BY NetworkSteps
<1> QED
  BY <1>1, <1>2, PTL DEF NSpec, Spec

\* At any time the model has the entries of everybody who has a name in it: the
\* fixed accounts, those in a role and those in the current transaction.
THEOREM ModelKnowsEntries == CutOffMet => (NSpec => []AgreeInv)
<1> SUFFICES ASSUME CutOffMet PROVE NSpec => []AgreeInv
  OBVIOUS
<1>1. NInit => NInv
  BY NetworkStarts
<1>2. NInv /\ [NNext]_nvars => NInv'
  BY NetworkSteps
<1>3. NInv => AgreeInv
  BY DEF NInv, NetInv
<1> QED
  BY <1>1, <1>2, <1>3, PTL DEF NSpec
=============================================================================
