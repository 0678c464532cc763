CONSTANTS
    chat1 = chat1
    chat2 = chat2
    resp = resp
    Thread = {chat1, chat2, resp}
    KeyOf <- OneKey
    NoSession = 0
    ContextOf <- SharedByTwo
    PathOf <- BothPaths
    Text = {x}
    MaxItems = 5
    MaxAnswers = 3
    MaxRestarts = 1
SPECIFICATION Spec
INVARIANTS
    TypeOK
    SentIsAsked
    ReasoningInPlace
    ReasoningKept
