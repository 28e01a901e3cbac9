---------------------------- MODULE AnswerClaims ----------------------------
(***************************************************************************)
(* What documents and comments of the repository say of a delivered        *)
(* answer, and the code does not keep.  Each statement quotes its line.    *)
(***************************************************************************)
EXTENDS AnswerDelivery

\* HARNESS_CONTRACT.md:145, "When a response is truncated rather than naturally
\* completed, the response includes `incomplete_details`": the field a frame's
\* text is read into (native_response.h) clips it, and nothing is marked.
TruncatedIsMarked ==
    \A e \in Delivered :
        e.mark = "" => IsSuffix(Text(0, answer), e.text)

=============================================================================
