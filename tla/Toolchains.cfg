CONSTANTS
    Args = {"--buildroot", "--install-top", "--qt-version", "--qt-git-branch", "--make-jobs", "--version", "bad", "--toolchains-dir", "--update-sources", "--opengl-desktop", "--build-python", "--toolchain-python", "--build-ruby", "--no-qtcreator", "--static-qt", "--extra-stuff", "--osg", "--coin3d", "i686", "x86_64"}
    MaxArgs = 5
    LaterArgs = {"--static-qt", "i686"}
    MaxVersion = 2
SPECIFICATION Spec
INVARIANTS OrderIrrelevant ListIsSound ToolchainIsWhole
CHECK_DEADLOCK TRUE
