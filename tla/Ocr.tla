-------------------------------- MODULE Ocr --------------------------------
(***************************************************************************)
(* OCRService and api/v1/ocr.py: an upload is validated and given to two   *)
(* extractors at once, which run in the threads of the loop's executor.    *)
(* Neither has a time limit.                                               *)
(***************************************************************************)
EXTENDS ApiRequests

CONSTANTS
    Threads,                   \* the threads of a worker's executor
    OCR_CONFIDENCE_THRESHOLD   \* in percent

ASSUME OcrAssumption ==
    Threads \in Nat \ {0} /\ OCR_CONFIDENCE_THRESHOLD \in Nat

VARIABLES
    model,   \* the workers that have loaded _latex_model
    found    \* where each extractor of an upload stands, or what it returned

ocrVars == <<model, found>>

Extractors == {"pix2tex", "tesseract"}
Outcomes   == {"text", "blank", "raised"}
Unused     == [e \in Extractors |-> "none"]

InitOcr ==
    /\ model = {}
    /\ found = [r \in Requests |-> Unused]

TooLarge(r) ==
    /\ Ends(r, "auth", Error(413))
    /\ body[r].image = "large"
    /\ UNCHANGED <<ocrVars, faults>>

Unreadable(r) ==
    /\ Ends(r, "auth", Error(422))
    /\ body[r].image = "broken"
    /\ UNCHANGED <<ocrVars, faults>>

\* gather starts both; the model is loaded on the way, and loading may raise.
\* _run_tesseract returns "" if pytesseract cannot be imported.
StartExtractors(r) ==
    /\ Awaits(r, "auth", "extract")
    /\ body[r].image = "ok"
    /\ \E pix2tex \in {"queued", "raised"}, tesseract \in {"queued", "blank"} :
        /\ body[r].worker \in model => pix2tex = "queued"
        /\ model' = IF pix2tex = "queued" THEN model \union {body[r].worker}
                                          ELSE model
        /\ found' = [found EXCEPT ![r] = [e \in Extractors |->
                        IF e = "pix2tex" THEN pix2tex ELSE tesseract]]
    /\ UNCHANGED <<reply, faults>>

Busy(r) == {t \in Neighbours(r) \X Extractors : found[t[1]][t[2]] = "running"}

ThreadTakes(r, e) ==
    /\ found[r][e] = "queued"
    /\ Cardinality(Busy(r)) < Threads
    /\ found' = [found EXCEPT ![r][e] = "running"]
    /\ UNCHANGED <<pc, reply, faults, model>>

\* Faulty variant: what tesseract raises is let through.
ThreadReturns_Raises(r, e) ==
    /\ found[r][e] = "running"
    /\ \E outcome \in Outcomes : found' = [found EXCEPT ![r][e] = outcome]
    /\ UNCHANGED <<pc, reply, faults, model>>
\* What tesseract raises, _run_tesseract turns into "".
ThreadReturns(r, e) ==
    /\ found[r][e] = "running"
    /\ \E outcome \in Outcomes :
        /\ e = "tesseract" => outcome # "raised"
        /\ found' = [found EXCEPT ![r][e] = outcome]
    /\ UNCHANGED <<pc, reply, faults, model>>

\* The confidence of the text that is returned.
\* Faulty variant: the fallback keeps the confidence of pix2tex.
Confidence_Kept(r) == 85
Confidence(r) == IF found[r]["pix2tex"] = "text" THEN 85 ELSE 55

Extracted(r) ==
    [status |-> 200,
     latex |-> IF found[r]["pix2tex"] = "text" THEN "pix2tex" ELSE "tesseract",
     requires_user_confirmation |-> Confidence(r) < OCR_CONFIDENCE_THRESHOLD,
     raw_text |-> found[r]["tesseract"] = "text"]

\* gather returns when both have, and not before.
\* Faulty variant: it returns with the first.
Gathered_First(r) == \E e \in Extractors : found[r][e] \in Outcomes
\* Faulty variant: it waits on when one of them raises.
Gathered_NotRaised(r) == \A e \in Extractors : found[r][e] \in {"text", "blank"}
Gathered(r) == \A e \in Extractors : found[r][e] \in Outcomes

Combine(r) ==
    /\ pc[r] = "extract" /\ Gathered(r)
    /\ Ends(r, "extract", IF \E e \in Extractors : found[r][e] = "text"
                          THEN Extracted(r) ELSE Error(422))
    /\ UNCHANGED <<ocrVars, faults>>
=============================================================================
