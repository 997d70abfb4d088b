------------------------------ MODULE PathMatcher ------------------------------
(***************************************************************************)
(* _match_path_segments_unchecked (core/resources.py): the loop that decides *)
(* what Covers says, with one remembered "**" instead of backtracking.      *)
(***************************************************************************)
EXTENDS Resources

CONSTANTS
    Patterns,   \* lists of segment patterns, as ParsePattern builds them
    Inputs      \* lists of segments, as NormalizePath builds them

VARIABLES
    pats, segs, \* the arguments
    pIdx, sIdx, \* p_idx + 1, s_idx + 1
    star,       \* star_idx + 1: the last "**" tried, 0 if none
    resume,     \* s_backtrack + 1
    steps,      \* iterations so far
    answer      \* "running", "yes" or "no"

vars == <<pats, segs, pIdx, sIdx, star, resume, steps, answer>>

Init ==
    /\ pats \in Patterns /\ segs \in Inputs
    /\ pIdx = 1 /\ sIdx = 1 /\ star = 0 /\ resume = 0
    /\ steps = 0 /\ answer = "running"

Tick     == steps' = steps + 1 /\ UNCHANGED <<pats, segs>>
Scanning == answer = "running" /\ sIdx <= Len(segs)
AtStars  == pIdx <= Len(pats) /\ pats[pIdx] = "**"
Fits     == pIdx <= Len(pats) /\ pats[pIdx] # "**" /\ SegmentMatches(pats[pIdx], segs[sIdx])

\* One iteration of the main loop.
Advance ==
    /\ Scanning /\ Fits
    /\ sIdx' = sIdx + 1 /\ pIdx' = pIdx + 1
    /\ UNCHANGED <<star, resume, answer>>
    /\ Tick

Remember ==
    /\ Scanning /\ AtStars
    /\ star' = pIdx /\ resume' = sIdx /\ pIdx' = pIdx + 1
    /\ UNCHANGED <<sIdx, answer>>
    /\ Tick

\* Mutant of Resume: the segment after the mismatch is tried next.
ResumeHere ==
    /\ Scanning /\ ~Fits /\ ~AtStars /\ star # 0
    /\ pIdx' = star + 1
    /\ resume' = resume + 1 /\ sIdx' = sIdx + 1
    /\ UNCHANGED <<star, answer>>
    /\ Tick

\* A mismatch: the last "**" takes one segment more.
Resume ==
    /\ Scanning /\ ~Fits /\ ~AtStars /\ star # 0
    /\ pIdx' = star + 1
    /\ resume' = resume + 1 /\ sIdx' = resume + 1
    /\ UNCHANGED <<star, answer>>
    /\ Tick

Mismatch ==
    /\ Scanning /\ ~Fits /\ ~AtStars /\ star = 0
    /\ answer' = "no"
    /\ UNCHANGED <<pIdx, sIdx, star, resume>>
    /\ Tick

\* The input is used up: only "**" may be left of the pattern.
SkipStars ==
    /\ answer = "running" /\ sIdx > Len(segs) /\ AtStars
    /\ pIdx' = pIdx + 1
    /\ UNCHANGED <<sIdx, star, resume, answer>>
    /\ Tick

Conclude ==
    /\ answer = "running" /\ sIdx > Len(segs) /\ ~AtStars
    /\ answer' = IF pIdx > Len(pats) THEN "yes" ELSE "no"
    /\ UNCHANGED <<pIdx, sIdx, star, resume>>
    /\ Tick

Next == Advance \/ Remember \/ Resume \/ Mismatch \/ SkipStars \/ Conclude

Spec == Init /\ [][Next]_vars
-----------------------------------------------------------------------------
TypeOK ==
    /\ pats \in Patterns /\ segs \in Inputs
    /\ pIdx \in 1..Len(pats) + 1 /\ sIdx \in 1..Len(segs) + 1
    /\ star \in 0..Len(pats) /\ resume \in 0..Len(segs) + 1
    /\ steps \in Nat /\ answer \in {"running", "yes", "no"}

\* The loop answers what the pattern means, "correctly handles '**' across zero or
\* more segments", and "runs in bounded O(N * M) time" (its docstring): forgetting
\* all but the last "**" loses no match, and no pattern makes it scan the rest of
\* the input more than once per segment.
MatcherAgrees ==
    /\ answer # "running" => (answer = "yes" <=> Covers(pats, segs))
    /\ steps <= (Len(segs) + 1) * (Len(pats) + 1)
=============================================================================
