------------------------------- MODULE Session -------------------------------
(***************************************************************************)
(* Logging in.  The process reads AUTH_USERS and SESSION_SECRET when it       *)
(* starts; a login gets a cookie that names the user and an expiry, signed     *)
(* with the secret; every request behind the gate is checked against the        *)
(* cookie and the users the process has loaded.  The operator may edit the       *)
(* environment and restart the process between any two requests.                *)
(*                                                                         *)
(* A user name is the sequence of its parts between "|" characters, since the    *)
(* cookie separates its fields with one.  A password hash is named by the         *)
(* password it fits.  An entry of AUTH_USERS is the sequence of its parts:         *)
(* << >> is blank, << name, hash >> is well formed, << name >> is not.              *)
(***************************************************************************)
EXTENDS Naturals, Sequences

CONSTANTS
  Names, Passwords,
  Environments,   \* [entries : Seq(entry), secret : Secrets]
  TTL,            \* sessionTTL, in units in which time passes
  NoSecret,       \* the empty SESSION_SECRET
  NoCookie, NoPath, NoLogin

Secrets == {e.secret : e \in Environments}

Cookies == [name : Names, left : 0..TTL, key : Secrets]
Logins  == [name : Names, secret : Secrets, age : 0..TTL]

Entries == {<< >>} \cup {<< n >> : n \in Names} \cup Names \X Passwords

ASSUME SessionAssumption ==
  /\ TTL \in Nat \ {0} /\ Names \subseteq Seq(STRING) \ {<< >>}
  /\ \A e \in Environments : e.entries \in Seq(Entries)
  /\ NoCookie \notin Cookies /\ NoLogin \notin Logins

VARIABLES
  env,       \* the environment as the operator last left it
  loaded,    \* the environment the process started with
  up,        \* is the process serving?
  users,     \* Manager.users
  cookie,    \* the browser's: [name, left until expiry, key it is signed with]
  page,      \* what the browser shows: "none", "login", "app"
  want,      \* the path of the browser's request in flight
  login      \* history: the last login, until it is undone: [name, secret, age]

vars == << env, loaded, up, users, cookie, page, want, login >>
procVars == << env, loaded, up, users >>

NoUsers == [n \in {} |-> NoSecret]

Init ==
  /\ env \in Environments /\ loaded = env
  /\ up = FALSE /\ users = NoUsers
  /\ cookie = NoCookie /\ page = "none" /\ want = NoPath
  /\ login = NoLogin

-----------------------------------------------------------------------------
(* config.Load. *)

Malformed(entries) == \E i \in DOMAIN entries : Len(entries[i]) = 1

Put(known, name, hash) ==
  [n \in DOMAIN known \cup {name} |-> IF n = name THEN hash ELSE known[n]]

\* Entries are taken in their order; a later one for the same name replaces it.
parseAuthUsers(entries) ==
  LET after[i \in 0..Len(entries)] ==
        IF i = 0 THEN NoUsers
        ELSE IF entries[i] = << >> THEN after[i - 1]
        ELSE Put(after[i - 1], entries[i][1], entries[i][2])
  IN  after[Len(entries)]

\* The secret is not asked for.
LoadsUnsigned(e) == ~Malformed(e.entries) /\ parseAuthUsers(e.entries) # NoUsers

Loads(e) ==
  /\ ~Malformed(e.entries)
  /\ parseAuthUsers(e.entries) # NoUsers /\ e.secret # NoSecret

EditEnvironment(e) ==
  /\ e \in Environments
  /\ env' = e
  /\ UNCHANGED << loaded, up, users, cookie, page, want, login >>

\* A process that cannot load its configuration exits at once.
Start ==
  /\ ~up /\ Loads(env)
  /\ up' = TRUE /\ loaded' = env
  /\ users' = parseAuthUsers(env.entries)
  /\ UNCHANGED << env, cookie, page, want, login >>

Stop ==
  /\ up
  /\ up' = FALSE /\ users' = NoUsers
  /\ UNCHANGED << env, loaded, cookie, page, want, login >>

-----------------------------------------------------------------------------
(* The cookie. *)

sign(name) == [name |-> name, left |-> TTL, key |-> loaded.secret]

\* Expired with its last unit of time still to come.
EarlyExpired(c) == c.left <= 1

Expired(c) == c.left = 0

\* The payload is the name, "|" and the expiry, and is cut at its first "|".
\* The expiry does not parse when the name has a "|" of its own.
verify(c) == c.key = loaded.secret /\ Len(c.name) = 1 /\ ~Expired(c)

\* The users are not consulted again.
validSignature(c) == c # NoCookie /\ verify(c)

valid(c) == c # NoCookie /\ verify(c) /\ << c.name[1] >> \in DOMAIN users

\* Time passes.  A browser whose clock agrees drops the cookie when it expires.
Tick ==
  /\ cookie # NoCookie
  /\ \/ /\ cookie.left > 0
        /\ cookie' = [cookie EXCEPT !.left = @ - 1]
        /\ login' = [login EXCEPT !.age = @ + 1]
     \/ cookie.left = 0 /\ cookie' = NoCookie /\ UNCHANGED login
  /\ UNCHANGED << procVars, page, want >>

-----------------------------------------------------------------------------
(* The browser. *)

Visit ==
  /\ want = NoPath
  /\ want' = "/"
  /\ UNCHANGED << procVars, cookie, page, login >>

\* app.js: any call to the API, or the logout button.
Call(path) ==
  /\ page = "app" /\ want = NoPath
  /\ want' = path
  /\ UNCHANGED << procVars, cookie, page, login >>

\* login.js: when the answer is a success, the browser goes to "/"; otherwise
\* the page says so.
Login(name, password) ==
  /\ page = "login" /\ want = NoPath /\ up
  /\ name \in DOMAIN users /\ users[name] = password
  /\ cookie' = sign(name) /\ want' = "/"
  /\ login' = [name |-> name, secret |-> loaded.secret, age |-> 0]
  /\ UNCHANGED << procVars, page >>

\* The request finds no process.
Unanswered ==
  /\ ~up /\ want # NoPath
  /\ want' = NoPath
  /\ UNCHANGED << procVars, cookie, page, login >>

-----------------------------------------------------------------------------
(* Routes and RequireSession. *)

\* Only the login request is let through.
PublicLoginOnly == {"/api/login"}

Public == {"/login", "/api/login"}

LetIn == up /\ want # NoPath /\ (want \in Public \/ valid(cookie))

\* 401 for the API, which app.js follows by going to /login; a redirect to
\* /login for everything else.
Refuse ==
  /\ up /\ want # NoPath /\ want \notin Public /\ ~valid(cookie)
  /\ want' = "/login"
  /\ UNCHANGED << procVars, cookie, page, login >>

ServePage ==
  /\ LetIn /\ want \in {"/", "/login"}
  /\ page' = IF want = "/" THEN "app" ELSE "login"
  /\ want' = NoPath
  /\ UNCHANGED << procVars, cookie, login >>

ServeAPI ==
  /\ LetIn /\ want = "/api/clips"
  /\ want' = NoPath
  /\ UNCHANGED << procVars, cookie, page, login >>

Logout ==
  /\ LetIn /\ want = "/api/logout"
  /\ cookie' = NoCookie /\ login' = NoLogin /\ want' = "/login"
  /\ UNCHANGED << procVars, page >>

Serve == Refuse \/ ServePage \/ ServeAPI \/ Logout

Operate == (\E e \in Environments : EditEnvironment(e)) \/ Start \/ Stop

Browse ==
  \/ Visit \/ Call("/api/clips") \/ Call("/api/logout") \/ Unanswered
  \/ \E n \in Names, p \in Passwords : Login(n, p)

Next == Operate \/ Browse \/ Serve \/ Tick

\* A request in flight is answered, or fails where there is no process.
Spec == Init /\ [][Next]_vars /\ WF_vars(Serve \/ Unanswered)

-----------------------------------------------------------------------------
\* The users an environment names, each with its last password.
Configured(e) ==
  {u \in Names \X Passwords :
     \E i \in DOMAIN e.entries :
       /\ e.entries[i] = u
       /\ \A j \in i + 1..Len(e.entries) : e.entries[j] = << >> \/ e.entries[j][1] # u[1]}

\* The variables keep their shape; a process that serves has users, exactly
\* those its environment names, and a secret to sign with (Load's checks).
TypeOK ==
  /\ env \in Environments /\ loaded \in Environments /\ up \in BOOLEAN
  /\ page \in {"none", "login", "app"}
  /\ want \in {NoPath, "/", "/login", "/api/clips", "/api/logout"}
  /\ cookie \in {NoCookie} \cup Cookies /\ login \in {NoLogin} \cup Logins
  /\ up => /\ loaded.secret # NoSecret
           /\ Configured(loaded) # {}
           /\ {<< n, users[n] >> : n \in DOMAIN users} = Configured(loaded)

\* Who may be served: someone who has logged in less than a session ago and has not
\* logged out since, is still a user of the environment the process was started with,
\* and did so under the secret it was started with.
Entitled ==
  /\ login # NoLogin /\ login.age < TTL
  /\ login.secret = loaded.secret
  /\ \E u \in Configured(loaded) : u[1] = login.name

Gated == up /\ want # NoPath /\ want \notin Public

\* Whatever the operator edits and however often the process is restarted between a
\* login and the request, a request behind the gate is let in only for a login that
\* still counts: "a user removed from AUTH_USERS should lose access on their next
\* request" (auth.go, valid), and so does everyone when the secret is changed.
UsersOnly == Gated /\ LetIn => Entitled

\* And it is let in for every login that counts, restarts in between or not: "Every
\* configured user has equal, full access" (auth.go).
FullAccess == Gated /\ Entitled => LetIn

\* No request is sent round in circles: the login page can be had without a
\* session, so that a browser that is refused, also by the logout it asked for,
\* comes to rest (Routes: "otherwise an unauthenticated visitor could never reach
\* a page that lets them log in").
NavigationEnds == want # NoPath ~> want = NoPath
=============================================================================
