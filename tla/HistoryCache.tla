---------------------------- MODULE HistoryCache ----------------------------
(***************************************************************************)
(* The download of a backtest's data and its cache on disk: candles        *)
(* (src/src/backtest/data_loader.py) and funding rates                     *)
(* (src/src/backtest/funding_data_loader.py) of one coin, loaded window    *)
(* by window, each window in a file of its own.                            *)
(*                                                                         *)
(* Time is counted in bars from the anchor of the chunks; bar b is open    *)
(* from b to b + 1, and the rate of tick b is known from b on.  The        *)
(* scripts end, are killed, and are started again; the files stay.  The    *)
(* exchange's API is external: it answers with the rows known when it is   *)
(* asked, or raises.                                                       *)
(***************************************************************************)
EXTENDS Integers

CONSTANTS
  Chunk,        \* chunk_days and FUNDING_WINDOW_DAYS, in bars
  Span,         \* the length of the history a script asks for, in bars
  EndIncluded,  \* whether the API's answer has a row at endTime
  LastTime      \* bound on the time

ASSUME CacheAssumption ==
  /\ Chunk \in Nat \ {0} /\ Span \in Nat \ {0}
  /\ EndIncluded \in BOOLEAN
  /\ LastTime \in Nat

VARIABLES
  now,     \* the time
  files,   \* the cache directory
  step,    \* the script: not started, loading, or how it ended
  loader,  \* which of the two loaders this is about: they share no file
  till,    \* its end, the time at its start
  cursor,  \* where the next window begins
  got      \* the rows so far: the bar, and when the API was asked for it

script == <<step, loader, till, cursor, got>>
cacheVars == <<now, files, script>>

Loaders == {"candles", "funding"}
Row == [bar : Int, at : Int]
File == [loader : Loaders, from : Int, to : Int, at : Int, whole : BOOLEAN]

CacheTypeOK ==
  /\ now \in Nat
  /\ files \subseteq File
  /\ step \in {"idle", "loading", "done", "failed"}
  /\ loader \in Loaders
  /\ till \in Nat /\ cursor \in Int
  /\ got \subseteq Row

CacheInit ==
  /\ now = Span
  /\ files = {}
  /\ step = "idle" /\ loader \in Loaders
  /\ till = 0 /\ cursor = 0
  /\ got = {}

-----------------------------------------------------------------------------
(* Chunks of candles are anchored, so the first may begin before the       *)
(* history does; funding windows begin with it.                            *)
FirstWindow(end) ==
  IF loader = "candles" THEN (end - Span) - ((end - Span) % Chunk) ELSE end - Span

(* The last chunk of candles may end after the history, and after now.     *)
WindowEnd ==
  IF loader = "funding" /\ till < cursor + Chunk THEN till ELSE cursor + Chunk

Covers(f, b) ==
  f.from <= b /\ (b < f.to \/ (EndIncluded /\ b = f.to))

(* What a file holds: of its window, what the API knew.                    *)
Rows(f) ==
  {r \in [bar : f.from..f.to, at : {f.at}] : Covers(f, r.bar) /\ r.bar <= f.at}

Window(whole) ==
  [loader |-> loader, from |-> cursor, to |-> WindowEnd, at |-> now, whole |-> whole]

(* A file's name tells its coin, its interval and its window.              *)
Names(f) == f.loader = loader /\ f.from = cursor /\ f.to = WindowEnd

(* A definition that no action uses is a variant, as in KillSwitch.        *)
MergeKeepingBoth(f) == got' = got \cup Rows(f)

(* Of two rows for one time the first is kept.                             *)
Merge(f) ==
  got' = got \cup {r \in Rows(f) : \A s \in got : s.bar # r.bar}

-----------------------------------------------------------------------------
Start ==
  /\ step # "loading"
  /\ step' = "loading"
  /\ till' = now
  /\ cursor' = FirstWindow(now)
  /\ got' = {}
  /\ UNCHANGED <<now, files, loader>>

(* The next window is in the cache.                                        *)
ReadFile ==
  /\ step = "loading" /\ cursor < till
  /\ \E f \in files : Names(f) /\ f.whole /\ Merge(f)
  /\ cursor' = WindowEnd
  /\ UNCHANGED <<now, files, step, loader, till>>

(* A file that is not whole exists and cannot be read, now or later.       *)
ReadRaises ==
  /\ step = "loading" /\ cursor < till
  /\ \E f \in files : Names(f) /\ ~f.whole
  /\ step' = "failed"
  /\ UNCHANGED <<now, files, loader, till, cursor, got>>

(* The next window is asked for and written to the cache, although the     *)
(* present may lie within it.                                              *)
Fetch ==
  /\ step = "loading" /\ cursor < till
  /\ \A f \in files : ~Names(f)
  /\ files' = files \cup {Window(TRUE)}
  /\ Merge(Window(TRUE))
  /\ cursor' = WindowEnd
  /\ UNCHANGED <<now, step, loader, till>>

(* The script is killed while it writes the file: to_parquet writes in     *)
(* place.                                                                  *)
KilledWriting ==
  /\ step = "loading" /\ cursor < till
  /\ \A f \in files : ~Names(f)
  /\ files' = files \cup {Window(FALSE)}
  /\ step' = "failed"
  /\ UNCHANGED <<now, loader, till, cursor, got>>

(* The API raises, or the script is killed anywhere else.                  *)
Fail ==
  /\ step = "loading"
  /\ step' = "failed"
  /\ UNCHANGED <<now, files, loader, till, cursor, got>>

(* All windows are there: candles outside the history are trimmed.         *)
Finish ==
  /\ step = "loading" /\ till <= cursor
  /\ step' = "done"
  /\ got' = IF loader = "candles"
            THEN {r \in got : till - Span <= r.bar /\ r.bar < till}
            ELSE got
  /\ UNCHANGED <<now, files, loader, till, cursor>>

TimePasses ==
  /\ now < LastTime
  /\ now' = now + 1
  /\ UNCHANGED <<files, script>>

CacheNext ==
  \/ Start \/ ReadFile \/ ReadRaises \/ Fetch \/ KilledWriting \/ Fail \/ Finish
  \/ TimePasses

CacheSpec == CacheInit /\ [][CacheNext]_cacheVars

-----------------------------------------------------------------------------
(* Properties                                                              *)

History == (till - Span)..(till - 1)

(* A candle is final once its bar is over, a funding rate when it is known.*)
FinalRow(b) ==
  \E r \in got : r.bar = b /\ (b < r.at \/ loader = "funding")

(* A file that was written before bar b was over.                          *)
EarlyFile(b) ==
  \E f \in files : f.loader = "candles" /\ Covers(f, b) /\ f.at <= b

(* What a finished load returns ("Load `days` of candles for each coin",   *)
(* data_loader.py:127): at most one row for each bar, and each bar of the  *)
(* history in its final form, except where a file was written before that  *)
(* bar was over.  Such a file is read for ever.  Funding windows end with  *)
(* the script's start, so they are never early.                            *)
HistoryExplained ==
  step = "done" =>
    /\ \A r, s \in got : r.bar = s.bar => r = s
    /\ \A b \in History : FinalRow(b) \/ (loader = "candles" /\ EarlyFile(b))
    /\ loader = "candles" => \A r \in got : r.bar \in History
=============================================================================
