SPECIFICATION FairUpgradeSpec
CONSTANTS
    Limit = 7
    Request <- TheRequest
    Forwards <- SomeForwards
    Answers <- SomeAnswers
    PipeCap = 6
    MaxSent = 3
PROPERTIES UpIsByteStream DownIsByteStream Upgraded
