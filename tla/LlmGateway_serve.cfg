SPECIFICATION FairSpec
CONSTANTS
    r1 = r1
    r2 = r2
    vllm = vllm
    groq = groq
    groqBig = groqBig
    openai = openai
    Requests = {r1}
    Clients = {vllm, groq, groqBig, openai}
    ClientOf <- GroqFirst
    VenueEnabled = TRUE
    Modes = {"recommend", "stream"}
    FailMax = 1
    ResetTimeout = 1
    FailureBound = 1
INVARIANTS TypeOK OneReask BillNamesAnswerer NoSplice NeverSecondGuessed FailsOnlyExhausted
PROPERTY EventuallyAnswered
