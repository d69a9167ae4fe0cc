---------------------------- MODULE SessionProofs ----------------------------
(***************************************************************************)
(* Proofs, for any users, environments and session life, that a process that *)
(* serves knows exactly the users its environment names, and that the gate     *)
(* opens for exactly the logins that still count, for the last of it if no name  *)
(* has a separator in it: see TypeOK, UsersOnly and FullAccess in Session.       *)
(***************************************************************************)
EXTENDS Session, Integers, FiniteSetTheorems, TLAPS

-----------------------------------------------------------------------------
(* parseAuthUsers.  A statement about every prefix of the list is proved by    *)
(* looking at the shortest prefix it would fail for.                          *)

LEMMA LeastNatural ==
  ASSUME NEW T \in SUBSET Nat, T # {}
  PROVE  \E n \in T : \A m \in T : n <= m
<1> DEFINE R == {p \in Nat \X Nat : p[1] < p[2]}
<1>1. IsWellFoundedOn(R, Nat)
  BY NatLessThanWellFounded DEF OpToRel
<1>2. \A x, y \in Nat : << x, y >> \in R <=> x < y
  OBVIOUS
<1> HIDE DEF R
<1>3. PICK x \in T : \A y \in T : ~ (<< y, x >> \in R)
  BY <1>1, WFMin
<1>4. SUFFICES ASSUME NEW m \in T PROVE x <= m
  OBVIOUS
<1>5. x \in Nat /\ m \in Nat /\ ~(m < x)
  BY <1>2, <1>3
<1> QED
  BY <1>5

\* What one entry does to the users known so far.
Step(known, entry) == IF entry = << >> THEN known ELSE Put(known, entry[1], entry[2])

\* f[i] is what the first i entries come to, for each i up to n.
Follows(f, entries, n) ==
  f = [i \in 0 .. n |-> IF i = 0 THEN NoUsers ELSE Step(f[i - 1], entries[i])]

\* There is such an f for each prefix, so that parseAuthUsers is what its
\* recursive definition says.
LEMMA PrefixesParse ==
  ASSUME NEW entries \in Seq(Entries), NEW n \in 0 .. Len(entries)
  PROVE  \E f : Follows(f, entries, n)
<1> DEFINE T == {m \in 0 .. Len(entries) : ~ \E f : Follows(f, entries, m)}
<1>1. SUFFICES ASSUME T # {} PROVE FALSE
  OBVIOUS
<1>2. PICK m \in T : \A k \in T : m <= k
  <2>1. T \in SUBSET Nat
    OBVIOUS
  <2> QED
    BY <1>1, <2>1, LeastNatural
<1>3. m \in 0 .. Len(entries) /\ ~ \E f : Follows(f, entries, m)
  OBVIOUS
<1>4. m # 0
  <2> DEFINE f == [i \in 0 .. 0 |-> NoUsers]
  <2>1. Follows(f, entries, 0)
    BY DEF Follows
  <2> QED
    BY <1>3, <2>1
<1>5. PICK f : Follows(f, entries, m - 1)
  <2>1. m - 1 \in 0 .. Len(entries) /\ m - 1 < m
    BY <1>3, <1>4
  <2>2. m - 1 \notin T
    BY <1>2, <1>3, <2>1
  <2> QED
    BY <2>1, <2>2
<1> DEFINE g == [i \in 0 .. m |-> IF i = m THEN Step(f[m - 1], entries[m]) ELSE f[i]]
<1>6. Follows(g, entries, m)
  <2>1. \A i \in 0 .. m : g[i] = IF i = 0 THEN NoUsers ELSE Step(g[i - 1], entries[i])
    <3> SUFFICES ASSUME NEW i \in 0 .. m
                 PROVE  g[i] = IF i = 0 THEN NoUsers ELSE Step(g[i - 1], entries[i])
      OBVIOUS
    <3>1. i # 0 => g[i - 1] = f[i - 1]
      BY <1>3
    <3>2. CASE i = m
      BY <1>4, <3>1, <3>2
    <3>3. CASE i # m
      <4>1. i \in 0 .. m - 1
        BY <1>3, <3>3
      <4>2. f[i] = IF i = 0 THEN NoUsers ELSE Step(f[i - 1], entries[i])
        BY <1>5, <4>1 DEF Follows
      <4> QED
        BY <3>1, <3>3, <4>2
    <3> QED
      BY <3>2, <3>3
  <2> HIDE DEF g
  <2>2. g = [i \in 0 .. m |-> g[i]]
    BY DEF g
  <2> QED
    BY <2>1, <2>2 DEF Follows
<1> QED
  BY <1>3, <1>6

LEMMA ParsingFollows ==
  ASSUME NEW entries \in Seq(Entries)
  PROVE  \E f : Follows(f, entries, Len(entries)) /\ parseAuthUsers(entries) = f[Len(entries)]
<1> DEFINE F == CHOOSE f : f = [i \in 0 .. Len(entries) |->
                  IF i = 0 THEN NoUsers
                  ELSE IF entries[i] = << >> THEN f[i - 1]
                  ELSE Put(f[i - 1], entries[i][1], entries[i][2])]
<1>1. parseAuthUsers(entries) = F[Len(entries)]
  BY DEF parseAuthUsers
<1>2. Len(entries) \in 0 .. Len(entries)
  OBVIOUS
<1>3. \E f : f = [i \in 0 .. Len(entries) |->
                  IF i = 0 THEN NoUsers
                  ELSE IF entries[i] = << >> THEN f[i - 1]
                  ELSE Put(f[i - 1], entries[i][1], entries[i][2])]
  BY <1>2, PrefixesParse DEF Follows, Step
<1>4. F = [i \in 0 .. Len(entries) |->
             IF i = 0 THEN NoUsers
             ELSE IF entries[i] = << >> THEN F[i - 1]
             ELSE Put(F[i - 1], entries[i][1], entries[i][2])]
  BY <1>3, Zenon
<1> HIDE DEF F
<1> QED
  BY <1>1, <1>4 DEF Follows, Step

\* The users the first n entries name, each with its last password.
Named(entries, n) ==
  {u \in Names \X Passwords :
     \E i \in 1 .. n :
       /\ entries[i] = u
       /\ \A j \in i + 1 .. n : entries[j] = << >> \/ entries[j][1] # u[1]}

Agree(known, entries, n) ==
  /\ known = [m \in DOMAIN known |-> known[m]]
  /\ {<< m, known[m] >> : m \in DOMAIN known} = Named(entries, n)

LEMMA UserNotBlank == \A u \in Names \X Passwords : u # << >>
<1> SUFFICES ASSUME NEW u \in Names \X Passwords PROVE u # << >>
  OBVIOUS
<1>1. u = << u[1], u[2] >>
  OBVIOUS
<1>2. \A a, b : << a, b >> # << >>
  OBVIOUS
<1> QED
  BY <1>1, <1>2

\* A blank entry names nobody.
LEMMA BlankEntry ==
  ASSUME NEW entries \in Seq(Entries), NEW n \in 1 .. Len(entries), entries[n] = << >>
  PROVE  Named(entries, n) = Named(entries, n - 1)
<1>1. \A u \in Names \X Passwords : u # << >>
  BY UserNotBlank
<1>2. ASSUME NEW u \in Names \X Passwords, NEW i \in 1 .. n, entries[i] = u,
             \A j \in i + 1 .. n : entries[j] = << >> \/ entries[j][1] # u[1]
      PROVE  u \in Named(entries, n - 1)
  <2>1. i \in 1 .. n - 1
    BY <1>1, <1>2
  <2>2. \A j \in i + 1 .. n - 1 : j \in i + 1 .. n
    OBVIOUS
  <2> QED
    BY <1>2, <2>1, <2>2 DEF Named
<1>3. ASSUME NEW u \in Names \X Passwords, NEW i \in 1 .. n - 1, entries[i] = u,
             \A j \in i + 1 .. n - 1 : entries[j] = << >> \/ entries[j][1] # u[1]
      PROVE  u \in Named(entries, n)
  <2>1. i \in 1 .. n
    OBVIOUS
  <2>2. \A j \in i + 1 .. n : j = n \/ j \in i + 1 .. n - 1
    OBVIOUS
  <2> QED
    BY <1>3, <2>1, <2>2 DEF Named
<1> QED
  BY <1>2, <1>3 DEF Named

\* A well-formed entry names its user, whatever the earlier ones said of it.
LEMMA UserEntry ==
  ASSUME NEW entries \in Seq(Entries), NEW n \in 1 .. Len(entries),
         entries[n] \in Names \X Passwords
  PROVE  Named(entries, n) =
           {entries[n]} \cup {u \in Named(entries, n - 1) : u[1] # entries[n][1]}
<1> DEFINE user == entries[n]
<1>1. user \in Named(entries, n)
  BY DEF Named
<1>2. user # << >>
  BY UserNotBlank
<1>3. ASSUME NEW u \in Names \X Passwords, NEW i \in 1 .. n, entries[i] = u, u # user,
             \A j \in i + 1 .. n : entries[j] = << >> \/ entries[j][1] # u[1]
      PROVE  u \in Named(entries, n - 1) /\ u[1] # user[1]
  <2>1. i \in 1 .. n - 1 /\ n \in i + 1 .. n
    BY <1>3
  <2>2. \A j \in i + 1 .. n - 1 : j \in i + 1 .. n
    OBVIOUS
  <2>3. u[1] # user[1]
    BY <1>2, <1>3, <2>1
  <2> QED
    BY <1>3, <2>1, <2>2, <2>3 DEF Named
<1>4. ASSUME NEW u \in Names \X Passwords, NEW i \in 1 .. n - 1, entries[i] = u,
             \A j \in i + 1 .. n - 1 : entries[j] = << >> \/ entries[j][1] # u[1],
             u[1] # user[1]
      PROVE  u \in Named(entries, n)
  <2>1. i \in 1 .. n
    OBVIOUS
  <2>2. \A j \in i + 1 .. n : j = n \/ j \in i + 1 .. n - 1
    OBVIOUS
  <2> QED
    BY <1>4, <2>1, <2>2 DEF Named
<1> HIDE DEF user
<1>5. ASSUME NEW u \in Named(entries, n), u # user
      PROVE  u \in Named(entries, n - 1) /\ u[1] # user[1]
  <2>1. PICK i \in 1 .. n :
          /\ entries[i] = u
          /\ \A j \in i + 1 .. n : entries[j] = << >> \/ entries[j][1] # u[1]
    BY DEF Named
  <2>2. u \in Names \X Passwords
    BY DEF Named
  <2> QED
    BY <1>3, <1>5, <2>1, <2>2
<1>6. ASSUME NEW u \in Named(entries, n - 1), u[1] # user[1]
      PROVE  u \in Named(entries, n)
  <2>1. PICK i \in 1 .. n - 1 :
          /\ entries[i] = u
          /\ \A j \in i + 1 .. n - 1 : entries[j] = << >> \/ entries[j][1] # u[1]
    BY DEF Named
  <2>2. u \in Names \X Passwords
    BY DEF Named
  <2> QED
    BY <1>4, <1>6, <2>1, <2>2
<1> QED
  BY <1>1, <1>5, <1>6 DEF user

LEMMA StepAgrees ==
  ASSUME NEW entries \in Seq(Entries), NEW n \in 1 .. Len(entries), ~Malformed(entries),
         NEW known, Agree(known, entries, n - 1)
  PROVE  Agree(Step(known, entries[n]), entries, n)
<1>1. n \in DOMAIN entries /\ entries[n] \in Entries
  OBVIOUS
<1>2. CASE entries[n] = << >>
  BY <1>2, BlankEntry DEF Agree, Step
<1>3. CASE entries[n] \in Names \X Passwords
  <2> DEFINE name == entries[n][1]
             hash == entries[n][2]
             grown == Put(known, name, hash)
  <2>1. Step(known, entries[n]) = grown
    BY <1>3 DEF Step
  <2>2. entries[n] = << name, hash >>
    BY <1>3
  <2> HIDE DEF name, hash
  <2>3. DOMAIN grown = DOMAIN known \cup {name}
    BY DEF Put
  <2>4. \A m \in DOMAIN grown : grown[m] = IF m = name THEN hash ELSE known[m]
    BY DEF Put
  <2>5. grown = [m \in DOMAIN grown |-> grown[m]]
    BY DEF Put
  <2> HIDE DEF grown
  <2>6. {<< m, grown[m] >> : m \in DOMAIN grown} =
          {<< name, hash >>} \cup {u \in {<< m, known[m] >> : m \in DOMAIN known} : u[1] # name}
    BY <2>3, <2>4
  <2>7. Named(entries, n) = {entries[n]} \cup {u \in Named(entries, n - 1) : u[1] # name}
    BY <1>3, UserEntry DEF name
  <2> QED
    BY <2>1, <2>2, <2>5, <2>6, <2>7 DEF Agree
<1>4. CASE \E m \in Names : entries[n] = << m >>
  BY <1>1, <1>4 DEF Malformed
<1> QED
  BY <1>1, <1>2, <1>3, <1>4 DEF Entries

\* What parseAuthUsers returns for a list it accepts.
LEMMA ParsedUsers ==
  ASSUME NEW entries \in Seq(Entries), ~Malformed(entries)
  PROVE  Agree(parseAuthUsers(entries), entries, Len(entries))
<1>1. PICK f : Follows(f, entries, Len(entries)) /\ parseAuthUsers(entries) = f[Len(entries)]
  BY ParsingFollows
<1> DEFINE T == {n \in 0 .. Len(entries) : ~Agree(f[n], entries, n)}
<1>2. SUFFICES ASSUME T # {} PROVE FALSE
  BY <1>1
<1>3. PICK n \in T : \A k \in T : n <= k
  <2>1. T \in SUBSET Nat
    OBVIOUS
  <2> QED
    BY <1>2, <2>1, LeastNatural
<1>4. n \in 0 .. Len(entries) /\ ~Agree(f[n], entries, n)
  OBVIOUS
<1>5. f[n] = IF n = 0 THEN NoUsers ELSE Step(f[n - 1], entries[n])
  BY <1>1, <1>4 DEF Follows
<1>6. n # 0
  <2>1. Agree(NoUsers, entries, 0)
    BY DEF Agree, NoUsers, Named
  <2> QED
    BY <1>4, <1>5, <2>1
<1>7. n - 1 \in 0 .. Len(entries) /\ n - 1 < n /\ n \in 1 .. Len(entries)
  BY <1>4, <1>6
<1>8. Agree(f[n - 1], entries, n - 1)
  BY <1>3, <1>4, <1>7
<1> HIDE DEF T
<1> QED
  BY <1>4, <1>5, <1>6, <1>7, <1>8, StepAgrees

-----------------------------------------------------------------------------
(* The process and its browser. *)

\* A configuration that loads is of the users it names, and of at least one.
LEMMA LoadedUsers ==
  ASSUME NEW e \in Environments, Loads(e)
  PROVE  /\ e.secret # NoSecret
         /\ Configured(e) # {}
         /\ {<< n, parseAuthUsers(e.entries)[n] >> : n \in DOMAIN parseAuthUsers(e.entries)}
              = Configured(e)
<1> DEFINE parsed == parseAuthUsers(e.entries)
<1>1. e.entries \in Seq(Entries)
  BY SessionAssumption
<1>2. ~Malformed(e.entries) /\ parsed # NoUsers /\ e.secret # NoSecret
  BY DEF Loads
<1>3. Agree(parsed, e.entries, Len(e.entries))
  BY <1>1, <1>2, ParsedUsers
<1>4. Named(e.entries, Len(e.entries)) = Configured(e)
  BY <1>1 DEF Named, Configured
<1> HIDE DEF parsed
<1>5. DOMAIN parsed # {}
  BY <1>2, <1>3 DEF Agree, NoUsers
<1>6. {<< n, parsed[n] >> : n \in DOMAIN parsed} = Configured(e)
  BY <1>3, <1>4 DEF Agree
<1>7. Configured(e) # {}
  BY <1>5, <1>6
<1> QED
  BY <1>2, <1>6, <1>7 DEF parsed

\* The cookie is that of the login that has not been undone, while it lasts.
CookieIsLogin ==
  /\ cookie # NoCookie => /\ login # NoLogin
                          /\ cookie.name = login.name /\ cookie.key = login.secret
                          /\ cookie.left = TTL - login.age
  /\ cookie = NoCookie => login = NoLogin \/ login.age = TTL

IInv == TypeOK /\ CookieIsLogin

LEMMA InitIInv == Init => IInv
BY DEF Init, TypeOK, CookieIsLogin, IInv

\* Most steps change neither the cookie nor the process.
LEMMA OtherSteps ==
  ASSUME IInv, UNCHANGED << procVars, cookie, login >>,
         page' \in {"none", "login", "app"},
         want' \in {NoPath, "/", "/login", "/api/clips", "/api/logout"}
  PROVE  IInv'
BY DEF IInv, TypeOK, CookieIsLogin, procVars, Configured

LEMMA LoginKeeps ==
  ASSUME IInv, NEW n \in Names, NEW p \in Passwords, Login(n, p)
  PROVE  IInv'
<1>1. /\ cookie' = sign(n) /\ want' = "/" /\ UNCHANGED << procVars, page >>
      /\ login' = [name |-> n, secret |-> loaded.secret, age |-> 0]
  BY DEF Login
<1>2. TTL \in Nat /\ loaded.secret \in Secrets
  BY SessionAssumption DEF IInv, TypeOK, Secrets
<1>3. cookie' \in Cookies /\ login' \in Logins
  BY <1>1, <1>2 DEF sign, Cookies, Logins
<1>4. TypeOK'
  BY <1>1, <1>3 DEF IInv, TypeOK, procVars, Configured
<1>5. CookieIsLogin'
  <2>1. cookie' # NoCookie /\ login' # NoLogin
    BY <1>3, SessionAssumption
  <2>2. /\ cookie'.name = login'.name /\ cookie'.key = login'.secret
        /\ cookie'.left = TTL - login'.age
    BY <1>1, <1>2 DEF sign
  <2> QED
    BY <2>1, <2>2 DEF CookieIsLogin
<1> QED
  BY <1>4, <1>5 DEF IInv

LEMMA TickKeeps ==
  ASSUME IInv, Tick
  PROVE  IInv'
<1>1. /\ cookie \in Cookies /\ login \in Logins /\ cookie # NoCookie
      /\ cookie.left = TTL - login.age /\ cookie.name = login.name /\ cookie.key = login.secret
      /\ UNCHANGED << procVars, page, want >>
  BY DEF IInv, TypeOK, CookieIsLogin, Tick
<1>2. TTL \in Nat /\ cookie.left \in 0..TTL /\ login.age \in 0..TTL
  BY <1>1, SessionAssumption DEF Cookies, Logins
<1>3. CASE cookie.left > 0 /\ cookie' = [cookie EXCEPT !.left = @ - 1]
           /\ login' = [login EXCEPT !.age = @ + 1]
  <2>1. cookie.left - 1 \in 0..TTL /\ login.age + 1 \in 0..TTL
        /\ cookie.left - 1 = TTL - (login.age + 1)
    BY <1>1, <1>2, <1>3
  <2>2. cookie' \in Cookies /\ login' \in Logins
    BY <1>1, <1>3, <2>1 DEF Cookies, Logins
  <2>3. /\ cookie'.name = login'.name /\ cookie'.key = login'.secret
        /\ cookie'.left = TTL - login'.age
    BY <1>1, <1>3, <2>1 DEF Cookies, Logins
  <2>4. CookieIsLogin'
    BY <2>2, <2>3, SessionAssumption DEF CookieIsLogin
  <2> QED
    BY <1>1, <2>2, <2>4 DEF IInv, TypeOK, procVars, Configured
<1>4. CASE cookie.left = 0 /\ cookie' = NoCookie /\ UNCHANGED login
  <2>1. login'.age = TTL
    BY <1>1, <1>2, <1>4
  <2> QED
    BY <1>1, <1>4, <2>1 DEF IInv, TypeOK, CookieIsLogin, procVars, Configured
<1> QED
  BY <1>3, <1>4 DEF Tick

LEMMA NextIInv == IInv /\ [Next]_vars => IInv'
<1> SUFFICES ASSUME IInv, [Next]_vars PROVE IInv'
  OBVIOUS
<1>1. ASSUME NEW e \in Environments, EditEnvironment(e) PROVE IInv'
  BY <1>1 DEF IInv, TypeOK, CookieIsLogin, EditEnvironment, Configured
<1>2. CASE Start
  <2>1. env \in Environments /\ Loads(env)
    BY <1>2 DEF IInv, TypeOK, Start
  <2>2. Configured(loaded') = Configured(env)
    BY <1>2 DEF Start
  <2>3. TypeOK'
    BY <1>2, <2>1, <2>2, LoadedUsers DEF IInv, TypeOK, Start
  <2> QED
    BY <1>2, <2>3 DEF IInv, CookieIsLogin, Start
<1>3. CASE Stop
  BY <1>3 DEF IInv, TypeOK, CookieIsLogin, Stop
<1>4. CASE Tick
  BY <1>4, TickKeeps
<1>5. ASSUME NEW n \in Names, NEW p \in Passwords, Login(n, p) PROVE IInv'
  BY <1>5, LoginKeeps
<1>6. CASE Visit \/ Call("/api/clips") \/ Call("/api/logout") \/ Unanswered
           \/ Refuse \/ ServePage \/ ServeAPI \/ UNCHANGED vars
  <2>1. /\ UNCHANGED << procVars, cookie, login >>
        /\ page' \in {"none", "login", "app"}
        /\ want' \in {NoPath, "/", "/login", "/api/clips", "/api/logout"}
    BY <1>6 DEF IInv, TypeOK, Visit, Call, Unanswered, Refuse, ServePage, ServeAPI, vars, procVars
  <2> QED
    BY <2>1, OtherSteps
<1>7. CASE Logout
  BY <1>7 DEF IInv, TypeOK, CookieIsLogin, Logout, procVars, Configured
<1> QED
  BY <1>1, <1>2, <1>3, <1>4, <1>5, <1>6, <1>7 DEF Next, Operate, Browse, Serve

LEMMA IInvHolds == Spec => []IInv
  BY InitIInv, NextIInv, PTL DEF Spec

(* A process that serves has exactly the users its environment names, each with *)
(* the last of its passwords, and a secret (TypeOK).                           *)
THEOREM TypeCorrect == Spec => []TypeOK
<1>1. IInv => TypeOK
  BY DEF IInv
<1> QED
  BY <1>1, IInvHolds, PTL

\* The users of the process are the configured ones.
LEMMA UsersAreConfigured ==
  ASSUME TypeOK, up = TRUE, NEW name
  PROVE  name \in DOMAIN users <=> \E u \in Configured(loaded) : u[1] = name
<1>1. {<< n, users[n] >> : n \in DOMAIN users} = Configured(loaded)
  BY DEF TypeOK
<1>2. ASSUME NEW n \in DOMAIN users
      PROVE  << n, users[n] >>[1] = n /\ << n, users[n] >> \in Configured(loaded)
  BY <1>1
<1>3. ASSUME NEW u \in Configured(loaded) PROVE u[1] \in DOMAIN users
  BY <1>1
<1> QED
  BY <1>2, <1>3

\* A cookie's name is read back whole if it has one part.
LEMMA NameReadBack ==
  ASSUME NEW n \in Names, Len(n) = 1
  PROVE  << n[1] >> = n
<1>1. n \in Seq(STRING)
  BY SessionAssumption
<1> QED
  BY <1>1

\* What the gate finds in the browser's cookie is its login.
LEMMA GateKnowsLogins ==
  ASSUME IInv, Gated
  PROVE  LetIn <=> Entitled /\ Len(cookie.name) = 1
<1>1. TypeOK /\ CookieIsLogin /\ up = TRUE /\ TTL \in Nat
  BY SessionAssumption DEF IInv, TypeOK, Gated
<1>2. LetIn <=> valid(cookie)
  BY <1>1 DEF LetIn, Gated
<1>3. CASE cookie = NoCookie
  <2>1. ~Entitled
    BY <1>1, <1>3 DEF CookieIsLogin, Entitled
  <2> QED
    BY <1>2, <1>3, <2>1 DEF valid
<1>4. CASE cookie # NoCookie
  <2>1. /\ cookie \in Cookies /\ login \in Logins /\ login # NoLogin
        /\ cookie.name = login.name /\ cookie.key = login.secret
        /\ cookie.left = TTL - login.age
    BY <1>1, <1>4 DEF TypeOK, CookieIsLogin
  <2>2. ~Expired(cookie) <=> login.age < TTL
    BY <1>1, <2>1 DEF Expired, Logins
  <2>3. cookie.name \in Names
    BY <2>1 DEF Cookies
  <2>4. Len(cookie.name) = 1 =>
          (<< cookie.name[1] >> \in DOMAIN users <=> \E u \in Configured(loaded) : u[1] = login.name)
    BY <1>1, <2>1, <2>3, NameReadBack, UsersAreConfigured
  <2> QED
    BY <1>2, <1>4, <2>1, <2>2, <2>4 DEF valid, verify, Entitled
<1> QED
  BY <1>3, <1>4

(* Whatever is edited and restarted in between, a request is let in only for a   *)
(* login that still counts (UsersOnly).                                         *)
THEOREM OnlyUsersLetIn == Spec => []UsersOnly
<1>1. IInv => UsersOnly
  BY GateKnowsLogins DEF UsersOnly
<1> QED
  BY <1>1, IInvHolds, PTL

(* And for every login that counts, if no user's name has a "|" in it             *)
(* (FullAccess): such a name is not read back from the cookie.                    *)
THEOREM UsersLetIn == ASSUME \A n \in Names : Len(n) = 1 PROVE Spec => []FullAccess
<1>1. IInv => FullAccess
  <2> SUFFICES ASSUME IInv, Gated, Entitled PROVE LetIn
    BY DEF FullAccess
  <2>1. cookie # NoCookie /\ cookie \in Cookies
    BY SessionAssumption DEF IInv, TypeOK, CookieIsLogin, Entitled
  <2>2. cookie.name \in Names
    BY <2>1 DEF Cookies
  <2> QED
    BY <2>2, GateKnowsLogins
<1> QED
  BY <1>1, IInvHolds, PTL
=============================================================================
