------------------------------- MODULE Spotify -------------------------------
(* The spotify module and its source (modules/spotify.rs,                   *)
(* sources/spotify.rs): a poll every five seconds, and a task for every     *)
(* click and scroll, which tells the player and then polls too.  Each call  *)
(* looks for a token of its own: that of the environment, or that of the    *)
(* token file, which it renews when it has run out.                         *)
EXTENDS Integers, FiniteSets

CONSTANTS
  Tasks,       \* bound: clicks and scrolls under way at once
  MaxEvents,   \* bound: what happens at Spotify, and clicks
  MaxFaults,   \* bound: requests and writes that fail
  TORN,        \* a token file that is being written, or was left so
  NONE

Workers == {"poll"} \cup Tasks

VARIABLES
  playing, song,       \* Spotify: the player, and what it has on; 0 is nothing
  granted,             \* Spotify: the refresh tokens it takes, as numbers
  valid,               \* Spotify: the access tokens it takes
  issued,              \* Spotify: tokens so far
  env,                 \* SPOTIFY_ACCESS_TOKEN as a token, or NONE
  configured,          \* spotify_config.json is there
  file,                \* spotify_web_token.json: [access, fresh, refresh], TORN or NONE
  events, faults,
  work,                \* worker -> [at, does, tok]
  data,                \* what the module shows
  excused              \* history: what is in the file may have become useless

spotify == <<playing, song, granted, valid, issued>>
given == <<env, configured>>
vars == <<spotify, given, file, events, faults, work, data, excused>>

Idle == [at |-> "idle", does |-> "poll", tok |-> NONE]
Simple(is) == [is |-> is, playing |-> FALSE, song |-> 0]
Token(n) == [access |-> n, fresh |-> TRUE, refresh |-> n]

Init ==
  /\ playing = FALSE /\ song \in {0, 1} /\ granted = {1} /\ valid = {1} /\ issued = 1
  /\ \/ env = Token(1) /\ configured = FALSE /\ file = NONE
     \/ env = NONE /\ configured = FALSE /\ file = Token(1)
     \/ env = NONE /\ configured = TRUE /\ file \in {NONE, Token(1)}
  /\ events = 0 /\ faults = 0
  /\ work = [w \in Workers |-> IF w = "poll" THEN [Idle EXCEPT !.at = "load"] ELSE Idle]
  /\ data = Simple("nothing")
  /\ excused = (file = NONE)

At(w, at) == work[w].at = at
Go(w, at) == work' = [work EXCEPT ![w].at = at]
Event == events < MaxEvents /\ events' = events + 1
Fault == faults < MaxFaults /\ faults' = faults + 1

-----------------------------------------------------------------------------
(* Elsewhere: somebody plays or skips; an hour passes; access is withdrawn,  *)
(* or given in the browser (authorize).                                      *)
Elsewhere ==
  /\ Event
  /\ \/ song # 0 /\ playing' = ~playing /\ UNCHANGED song
     \/ song' = song + 1 /\ UNCHANGED playing
  /\ UNCHANGED <<granted, valid, issued, given, file, faults, work, data, excused>>

(* Every access token given out so far, those just received included. *)
Holds(w) == work[w].at \in {"refresh", "save", "write", "act", "ask"}
Written == file \notin {NONE, TORN}
Expires ==
  /\ Event /\ valid # {}
  /\ file' = IF Written THEN [file EXCEPT !.fresh = FALSE] ELSE file
  /\ valid' = {}
  /\ work' = [w \in Workers |-> IF Holds(w) THEN [work[w] EXCEPT !.tok.fresh = FALSE] ELSE work[w]]
  /\ UNCHANGED <<playing, song, granted, issued, given, faults, data, excused>>

Withdrawn ==
  /\ Event /\ valid' = {} /\ granted' = {} /\ excused' = TRUE
  /\ UNCHANGED <<playing, song, issued, given, file, faults, work, data>>

-----------------------------------------------------------------------------
(* load_access_token, once for the player (bearer_token) and once for the    *)
(* poll that follows.  Without a token there is nothing to tell the player.  *)
Tells(w) == work[w].does \in {"play", "pause", "skip"}
Poll(w) == work' = [work EXCEPT ![w] = [at |-> "load", does |-> "poll", tok |-> NONE]]
Loaded(w, tok) == work' = [work EXCEPT ![w].at = IF Tells(w) THEN "act" ELSE "ask", ![w].tok = tok]

Unloaded(w) == IF Tells(w) THEN Poll(w) ELSE Go(w, "needed")

(* Faulty variant: nobody looks at the clock. *)
Usable_Always(tok) == TRUE
Usable(tok) == tok.fresh

Load(w) ==
  /\ At(w, "load")
  /\ \/ env # NONE /\ Loaded(w, env)
     \/ env = NONE /\ ~Written /\ Unloaded(w)
     \/ /\ env = NONE /\ Written
        /\ \/ Usable(file) /\ Loaded(w, file)
           \/ ~Usable(file) /\ configured /\ work' = [work EXCEPT ![w].at = "refresh", ![w].tok = file]
           \/ ~Usable(file) /\ ~configured /\ Unloaded(w)
  /\ UNCHANGED <<spotify, given, file, events, faults, data, excused>>

(* Where two renew at once, one may be told of tokens the other has had      *)
(* withdrawn.                                                                *)
Renewing(w) == work[w].at \in {"refresh", "save", "write"}
Alone(w) == \A v \in Workers \ {w} : ~Renewing(v)

(* refresh_token: Spotify may give a new refresh token with the answer, and  *)
(* then takes the old one no more.  Faulty variant: the new one is left.     *)
Renewed_Leaves(w, rotate) == [Token(issued + 1) EXCEPT !.refresh = work[w].tok.refresh]
Renewed(w, rotate) == [Token(issued + 1) EXCEPT !.refresh = IF rotate THEN @ ELSE work[w].tok.refresh]

(* The answer may be lost though Spotify has given it. *)
Granted(w) ==
  /\ work[w].tok.refresh \in granted
  /\ issued' = issued + 1 /\ valid' = valid \cup {issued'}
  /\ \E rotate \in BOOLEAN :
       /\ granted' = IF rotate THEN {issued'} ELSE granted
       /\ \/ /\ work' = [work EXCEPT ![w].at = "save", ![w].tok = Renewed(w, rotate)]
             /\ excused' = (excused \/ ~Alone(w)) /\ UNCHANGED faults
          \/ Fault /\ Unloaded(w) /\ excused' = TRUE

Refresh(w) ==
  /\ At(w, "refresh")
  /\ \/ Granted(w)
     \/ /\ work[w].tok.refresh \notin granted
        /\ Unloaded(w) /\ UNCHANGED <<granted, valid, issued, faults, excused>>
     \/ Fault /\ Unloaded(w) /\ UNCHANGED <<granted, valid, issued, excused>>
  /\ UNCHANGED <<playing, song, given, file, events, data>>

(* save_token: fs::write empties the file before it writes.  Either may      *)
(* fail, which nobody hears of.  Two workers may save at once: the last wins.*)
Saved(w) == IF work[w].does = "authorize" THEN Poll(w) ELSE Loaded(w, work[w].tok)

Save(w) ==
  /\ At(w, "save")
  /\ \/ file' = TORN /\ Go(w, "write") /\ UNCHANGED <<faults, excused>>
     \/ Fault /\ Saved(w) /\ excused' = TRUE /\ UNCHANGED file
  /\ UNCHANGED <<spotify, given, events, data>>

Write(w) ==
  /\ At(w, "write") /\ Saved(w)
  /\ \/ file' = work[w].tok /\ UNCHANGED <<faults, excused>>
     \/ Fault /\ file' = TORN /\ excused' = TRUE
  /\ UNCHANGED <<spotify, given, events, data>>

(* toggle_playback tells the player the opposite of what the module showed   *)
(* when it was clicked; skip has the player change the song.                 *)
Accepted(w) == work[w].tok.access \in valid
Act(w) ==
  /\ At(w, "act")
  /\ LET told == Accepted(w) /\ song # 0
     IN  /\ playing' = IF told /\ work[w].does \in {"play", "pause"} THEN work[w].does = "play" ELSE playing
         /\ song' = IF told /\ work[w].does = "skip" THEN song + 1 ELSE song
  /\ Poll(w)
  /\ UNCHANGED <<granted, valid, issued, given, file, events, faults, data, excused>>

(* get_current_track, and what poll makes of its answer. *)
Now == IF song = 0 THEN Simple("silent") ELSE [is |-> "track", playing |-> playing, song |-> song]
Answer(w) == IF Accepted(w) THEN Now ELSE Simple("expired")

Ask(w) ==
  /\ At(w, "ask")
  /\ \E answer \in {Answer(w)} \cup {Simple(f) : f \in IF faults < MaxFaults THEN {"error"} ELSE {}} :
       /\ faults' = IF answer.is = "error" THEN faults + 1 ELSE faults
       /\ work' = [work EXCEPT ![w] = [at |-> "deliver", does |-> @.does, tok |-> answer]]
  /\ UNCHANGED <<spotify, given, file, events, data, excused>>

Needed(w) ==
  /\ At(w, "needed")
  /\ work' = [work EXCEPT ![w].at = "deliver", ![w].tok = Simple(IF configured THEN "needs_auth" ELSE "nothing")]
  /\ UNCHANGED <<spotify, given, file, events, faults, data, excused>>

(* Msg::Data; the poll starts anew in five seconds. *)
Deliver(w) ==
  /\ At(w, "deliver") /\ data' = work[w].tok
  /\ work' = [work EXCEPT ![w] = IF w = "poll" THEN [Idle EXCEPT !.at = "load"] ELSE Idle]
  /\ UNCHANGED <<spotify, given, file, events, faults, excused>>

Worker(w) == Load(w) \/ Refresh(w) \/ Save(w) \/ Write(w) \/ Act(w) \/ Ask(w) \/ Needed(w) \/ Deliver(w)

-----------------------------------------------------------------------------
(* A click authorizes when that is needed and tells the player otherwise. *)
NeedsAuth == data.is = "needs_auth"
Click(w) ==
  /\ At(w, "idle") /\ Event
  /\ work' = [work EXCEPT ![w] = [at |-> IF NeedsAuth THEN "authorize" ELSE "load",
                                  does |-> IF NeedsAuth THEN "authorize" ELSE IF data.playing THEN "pause" ELSE "play",
                                  tok |-> NONE]]
  /\ UNCHANGED <<spotify, given, file, faults, data, excused>>

Scroll(w) ==
  /\ At(w, "idle") /\ Event
  /\ work' = [work EXCEPT ![w] = [at |-> "load", does |-> "skip", tok |-> NONE]]
  /\ UNCHANGED <<spotify, given, file, faults, data, excused>>

(* authorize: a port of its own, and whatever calls there first; without     *)
(* the port, or the code, the module only polls.                             *)
Authorize(w) ==
  /\ At(w, "authorize") /\ \A v \in Tasks \ {w} : ~At(v, "authorized")
  /\ Go(w, "authorized")
  /\ UNCHANGED <<spotify, given, file, events, faults, data, excused>>
Refused(w) ==
  /\ work[w].at \in {"authorize", "authorized"} /\ Fault /\ Poll(w)
  /\ UNCHANGED <<spotify, given, file, events, data, excused>>

(* The code is exchanged for tokens, which are saved. *)
Exchange(w) ==
  /\ At(w, "authorized")
  /\ issued' = issued + 1 /\ granted' = {issued'} /\ valid' = {issued'}
  /\ work' = [work EXCEPT ![w].at = "save", ![w].tok = Token(issued')]
  /\ excused' = ~Alone(w)
  /\ UNCHANGED <<playing, song, given, file, events, faults, data>>

Next ==
  \/ Elsewhere \/ Expires \/ Withdrawn
  \/ \E w \in Workers : Worker(w)
  \/ \E w \in Tasks : Click(w) \/ Scroll(w) \/ Authorize(w) \/ Refused(w) \/ Exchange(w)

Spec ==
  /\ Init /\ [][Next]_vars
  /\ \A w \in Workers : WF_vars(Worker(w))
  /\ \A w \in Tasks : WF_vars(Exchange(w))

-----------------------------------------------------------------------------
(* There is no token that Spotify takes, nor one to renew it with. *)
Useless ==
  LET tok == IF env = NONE THEN file ELSE env
  IN  \/ tok \in {NONE, TORN}
      \/ /\ tok.access \notin valid
         /\ tok.fresh \/ env # NONE \/ ~configured \/ tok.refresh \notin granted

(* However polls, clicks and renewals overlap, and whatever fails among      *)
(* them, the module comes to show the player as it is; unless there is no    *)
(* token of use, because Spotify takes none any more, two workers renewed at *)
(* once, what Spotify gave was lost or not written, or the set-up has no way *)
(* to renew one.                                                             *)
PlayerFollows == <>[](data = Now \/ (Useless /\ (excused \/ env # NONE \/ ~configured)))

(* "Token expired - click to reauth" (sources/spotify.rs:222). *)
ReauthOffered ==
  [][\A w \in Tasks : (At(w, "idle") /\ data.is = "expired" /\ work'[w].does # "skip" /\ work'[w].at # "idle")
        => work'[w].at = "authorize"]_vars
=============================================================================
