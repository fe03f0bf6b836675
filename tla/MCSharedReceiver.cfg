\* One request, every message and every outcome of the pipeline, beside a
\* service that starts and stops two signals' pipelines; the third has none.
SPECIFICATION SharedSpec
CONSTANTS
    r1 = r1
    Req = {r1}
    Messages <- EveryMessage
    Outcomes <- EveryOutcome
    Routes = {"traces", "logs"}
    BodyCap = 7
CHECK_DEADLOCK FALSE
INVARIANTS SharedTypeOK CountedOnce OneCap AnswerTellsTheOutcome NothingLeftListening
PROPERTY NoDataToStoppedPipeline
